---------------------------- MODULE Spec2Model ----------------------------
(***************************************************************************)
(* Verification model of the algebraic range-query engine of math-optim:   *)
(*   src/src/algebra/monoid.rs, monoid_impl.rs, monoid_action.rs           *)
(*   src/src/ds/segtree.rs       (SegTree: point set, range fold)          *)
(*   src/src/ds/lazy_segtree.rs  (LazySegTree: range apply, range fold)    *)
(* and of the utilities beside it:                                         *)
(*   src/src/data_structure/dsu.rs  (DSU)                                  *)
(*   src/src/ds/potential_dsu.rs    (PotentialDSU over a Group)            *)
(*   src/src/graph/scc.rs           (kosaraju)                             *)
(*   src/src/math/conv/ntt.rs       (the cache of NTT roots)               *)
(*                                                                         *)
(* The calls of both trees are modelled twice: as whole calls (operators   *)
(* and the actions named ...Call), and statement by statement (the         *)
(* variable run and the specification SpecSteps).                          *)
(*                                                                         *)
(* Both structures are generic over an algebra.  The model instantiates    *)
(* them with small non-commutative algebras, selected by the field `alg`   *)
(* of the tree, so that an operand order mistake changes a result.         *)
(***************************************************************************)
EXTENDS Integers, Sequences, FiniteSets, TLC

VARIABLES
    seg,      \* the SegTree object: [alg, n, m, data]
    segRef,   \* the plain sequence a the SegTree manages (reference array)
    lazy,     \* the LazySegTree object: [alg, n, m, data, func]
    lazyRef,  \* the plain sequence the LazySegTree manages (reference array)
    debug,    \* cfg!(debug_assertions) of the build: debug_assert! is live
    applied,  \* the number of range_apply calls made so far
    last,     \* the last call: whether its arguments kept the contract and
              \* how it ended; for the SegTree and the union-find structures
              \* also its name, its arguments and the value returned
    dsu,      \* the DSU object: [parent, num_sets]
    dsuRef,   \* the partition the union calls made so far generate
    pdsu,     \* the PotentialDSU object: [parent, potential, num_sets]
    pdsuRef,  \* the partition, and the differences the unions have asked for
    scc,      \* a kosaraju call: its arguments n, e and the vector returned
    ntt,      \* the NTT roots cache, its lock, and the threads calling it
    run       \* the operation of the engine in progress, statement by
              \* statement: its position, its locals, the slots it has touched

vars == <<seg, segRef, lazy, lazyRef, debug, applied, last,
          dsu, dsuRef, pdsu, pdsuRef, scc, ntt, run>>

\* The variables of the range-query engine, and those of the utilities.
engine == <<seg, segRef, lazy, lazyRef, debug, applied, run>>
utilities == <<dsu, dsuRef, pdsu, pdsuRef, scc, ntt>>

(***************************************************************************)
(* Bounds of the model.                                                    *)
(***************************************************************************)
MaxSegN == 4      \* a SegTree manages at most this many elements
MaxLazyN == 4     \* a LazySegTree manages at most this many elements
MaxApplies == 2   \* a run makes at most this many range_apply calls
MaxDsuN == 4      \* a DSU manages at most this many elements
MaxPdsuN == 4     \* a PotentialDSU manages at most this many elements
MaxVertices == 3  \* kosaraju is given at most this many vertices
MaxEdges == 3     \* kosaraju is given at most this many edges
MaxThreads == 2   \* at most this many threads call get_ntt_roots
MaxCalls == 3     \* the threads make at most this many calls in all

Letters == {"a", "b"}

(***************************************************************************)
(* Monoid instances (trait Monoid).                                        *)
(*   "Concat": strings over Letters under concatenation (free monoid).     *)
(*   "Affine": AffineMonoid, (a, b) = x |-> a x + b, op(a, b) = b after a. *)
(* The affine values of the model stay far below the integer width, so     *)
(* no product wraps.                                                       *)
(***************************************************************************)
MonoidAlgs == {"Concat", "Affine"}

identity(alg) == IF alg = "Concat" THEN << >> ELSE <<1, 0>>

op(alg, a, b) ==
    IF alg = "Concat" THEN a \o b
    ELSE <<a[1] * b[1], a[2] * b[1] + b[2]>>

\* The element values client code stores: the identity and two generators
\* that do not commute.
MonoidVals(alg) ==
    IF alg = "Concat" THEN {<< >>, <<"a">>, <<"b">>}
    ELSE {<<1, 0>>, <<2, 1>>, <<1, 1>>}

(***************************************************************************)
(* usize helpers.                                                          *)
(***************************************************************************)
RECURSIVE Pow2(_)
Pow2(k) == IF k = 0 THEN 1 ELSE 2 * Pow2(k - 1)

RECURSIVE NextPow2From(_, _)
NextPow2From(p, n) == IF p >= n THEN p ELSE NextPow2From(2 * p, n)

\* The smallest power of two above n.
next_power_of_two_above(n) == NextPow2From(1, n + 1)

\* usize::next_power_of_two: the smallest power of two >= n (1 for n = 0).
next_power_of_two(n) == NextPow2From(1, n)

RECURSIVE trailing_zeros(_)
trailing_zeros(m) == IF m % 2 = 1 THEN 0 ELSE 1 + trailing_zeros(m \div 2)

Shr(x, k) == x \div Pow2(k)
Shl(x, k) == x * Pow2(k)

\* All sequences over S of length exactly n.
RECURSIVE SeqsOfLen(_, _)
SeqsOfLen(S, n) ==
    IF n = 0 THEN {<< >>}
    ELSE {Append(s, x) : s \in SeqsOfLen(S, n - 1), x \in S}

(***************************************************************************)
(* Range arguments (impl RangeBounds<usize>): a start bound and an end     *)
(* bound, each Unbounded, Included(x) or Excluded(x).                      *)
(***************************************************************************)
Unbounded == <<"Unbounded", 0>>
Included(x) == <<"Included", x>>
Excluded(x) == <<"Excluded", x>>

\* match range.start_bound(): the start of the half-open range.
StartOf(range) ==
    CASE range.start[1] = "Unbounded" -> 0
      [] range.start[1] = "Included" -> range.start[2]
      [] range.start[1] = "Excluded" -> range.start[2] + 1

\* An unbounded end taken as the capacity m.
EndOfM(range, n, m) ==
    CASE range.end[1] = "Unbounded" -> m
      [] range.end[1] = "Included" -> range.end[2] + 1
      [] range.end[1] = "Excluded" -> range.end[2]

\* match range.end_bound(): the end of the half-open range.
EndOf(range, n, m) ==
    CASE range.end[1] = "Unbounded" -> n
      [] range.end[1] = "Included" -> range.end[2] + 1
      [] range.end[1] = "Excluded" -> range.end[2]

HalfOpen(l, r) == [start |-> Included(l), end |-> Excluded(r)]

\* The range forms client code writes most: l..r, .., l.. and ..r.
CommonForms(top) ==
    {HalfOpen(l, r) : l \in 0..top, r \in 0..top}
    \cup [start : {Unbounded} \cup {Included(x) : x \in 0..top}, end : {Unbounded}]
    \cup [start : {Unbounded}, end : {Excluded(x) : x \in 0..top}]

\* l..r and .. only.
PlainForms(top) ==
    {HalfOpen(l, r) : l \in 0..top, r \in 0..top}
    \cup {[start |-> Unbounded, end |-> Unbounded]}

\* Every range form whose bounds mention positions up to top.
RangeForms(top) ==
    [start : {Unbounded} \cup {Included(x) : x \in 0..top}
                         \cup {Excluded(x) : x \in 0..top},
     end   : {Unbounded} \cup {Included(x) : x \in 0..top}
                         \cup {Excluded(x) : x \in 0..top}]

ValidRange(range, n, m) ==
    StartOf(range) <= EndOf(range, n, m) /\ EndOf(range, n, m) <= n

(***************************************************************************)
(* Outcome of a call: the object after it, the value returned, and how the *)
(* call ended ("ok", or a panic: "assert" for a failed debug_assert!,      *)
(* "bounds" for the slice index check).  A panic ends the program.         *)
(***************************************************************************)
Unit == << >>

Returned(t, v) == [tree |-> t, ret |-> v, end |-> "ok"]
Panicked(t, how) == [tree |-> t, ret |-> Unit, end |-> how]

(***************************************************************************)
(* SegTree (src/src/ds/segtree.rs).                                        *)
(***************************************************************************)
\* Every slot holds a value that is not the identity.
SegNewFilled(alg, n) ==
    LET m == next_power_of_two(n)
    IN  [alg |-> alg, n |-> n, m |-> m,
         data |-> [i \in 0..(2 * m - 1) |->
                      IF alg = "Concat" THEN <<"a">> ELSE <<2, 1>>]]

SegNew(alg, n) ==
    LET m == next_power_of_two(n)
    IN  [alg |-> alg, n |-> n, m |-> m,
         data |-> [i \in 0..(2 * m - 1) |-> identity(alg)]]

\* for i in (1..m).rev() { data[i] = T::op(&data[2 * i], &data[2 * i + 1]); }
RECURSIVE SegBuild(_, _, _)
SegBuild(alg, data, i) ==
    IF i < 1 THEN data
    ELSE SegBuild(alg,
                  [data EXCEPT ![i] = op(alg, data[2 * i], data[2 * i + 1])],
                  i - 1)

SegFromVec(alg, a) ==
    LET n == Len(a)
        m == next_power_of_two(n)
        data == [i \in 0..(2 * m - 1) |->
                    IF m <= i /\ i < n + m THEN a[i - m + 1] ELSE identity(alg)]
    IN  [alg |-> alg, n |-> n, m |-> m, data |-> SegBuild(alg, data, m - 1)]

\* while i > 0 { data[i] = T::op(&data[2 * i], &data[2 * i + 1]); i >>= 1; }
RECURSIVE SegSetWalk(_, _, _)
SegSetWalk(alg, data, i) ==
    IF i > 0
    THEN SegSetWalk(alg,
                    [data EXCEPT ![i] = op(alg, data[2 * i], data[2 * i + 1])],
                    i \div 2)
    ELSE data

\* The leaf is overwritten, its ancestors are not recomputed.
SegSetNoWalk(t, i, x, dbg) ==
    IF dbg /\ ~(i < t.n) THEN Panicked(t, "assert")
    ELSE IF i + t.m >= 2 * t.m THEN Panicked(t, "bounds")
    ELSE Returned([t EXCEPT !.data = [t.data EXCEPT ![i + t.m] = x]], Unit)

SegSet(t, i, x, dbg) ==
    IF dbg /\ ~(i < t.n) THEN Panicked(t, "assert")
    ELSE IF i + t.m >= 2 * t.m THEN Panicked(t, "bounds")
    ELSE Returned([t EXCEPT !.data =
                      SegSetWalk(t.alg, [t.data EXCEPT ![i + t.m] = x],
                                 (i + t.m) \div 2)],
                  Unit)

\* The offset m of the leaves forgotten.
SegGetNoOffset(t, i, dbg) ==
    IF dbg /\ ~(i < t.n) THEN Panicked(t, "assert")
    ELSE IF i + t.m >= 2 * t.m THEN Panicked(t, "bounds")
    ELSE Returned(t, t.data[i])

SegGet(t, i, dbg) ==
    IF dbg /\ ~(i < t.n) THEN Panicked(t, "assert")
    ELSE IF i + t.m >= 2 * t.m THEN Panicked(t, "bounds")
    ELSE Returned(t, t.data[i + t.m])

\* A single accumulator instead of two: nodes are folded in visiting order.
RECURSIVE SegFoldWalkOneAcc(_, _, _, _, _, _)
SegFoldWalkOneAcc(alg, data, l, r, left, right) ==
    IF l < r
    THEN LET left1  == IF l % 2 = 1 THEN op(alg, left, data[l]) ELSE left
             l1     == IF l % 2 = 1 THEN l + 1 ELSE l
             r1     == IF r % 2 = 1 THEN r - 1 ELSE r
             left2  == IF r % 2 = 1 THEN op(alg, left1, data[r1]) ELSE left1
         IN  SegFoldWalkOneAcc(alg, data, l1 \div 2, r1 \div 2, left2, right)
    ELSE op(alg, left, right)

\* The boundary walk of SegTree::range_fold with its two accumulators.
RECURSIVE SegFoldWalk(_, _, _, _, _, _)
SegFoldWalk(alg, data, l, r, left, right) ==
    IF l < r
    THEN LET left1  == IF l % 2 = 1 THEN op(alg, left, data[l]) ELSE left
             l1     == IF l % 2 = 1 THEN l + 1 ELSE l
             r1     == IF r % 2 = 1 THEN r - 1 ELSE r
             right1 == IF r % 2 = 1 THEN op(alg, data[r1], right) ELSE right
         IN  SegFoldWalk(alg, data, l1 \div 2, r1 \div 2, left1, right1)
    ELSE op(alg, left, right)

SegRangeFold(t, range, dbg) ==
    LET l == StartOf(range) + t.m
        r == EndOf(range, t.n, t.m) + t.m
    IN  IF dbg /\ ~(l <= r) THEN Panicked(t, "assert")
        ELSE IF dbg /\ ~(r <= t.n + t.m) THEN Panicked(t, "assert")
        ELSE Returned(t, SegFoldWalk(t.alg, t.data, l, r,
                                     identity(t.alg), identity(t.alg)))

SegAllFoldLeaf(t) == Returned(t, t.data[t.m])

SegAllFold(t) == Returned(t, t.data[1])

(***************************************************************************)
(* MonoidAction instances (trait MonoidAction).                            *)
(*   "Subst": S = strings over Letters under concatenation; F = the maps   *)
(*     Letters -> Letters, written <<image of "a", image of "b">>;         *)
(*     apply(x, f) rewrites every letter of x by f; op_f(f, g) is "f, then *)
(*     g".  Both monoids are non-commutative and apply is a homomorphism.  *)
(*   "SubstDoc": the same action with op_f written to the composition law *)
(*     of the module documentation of monoid_action.rs,                    *)
(*     (f * g)(x) = f(g(x)): op_f(f, g) is "g, then f".                    *)
(***************************************************************************)
identity_s(alg) == << >>

identity_f(alg) == <<"a", "b">>

op_s(alg, a, b) == a \o b

SubstLetter(f, c) == IF c = "a" THEN f[1] ELSE f[2]

\* f, then g.
SubstThen(f, g) == <<SubstLetter(g, f[1]), SubstLetter(g, f[2])>>

op_f(alg, f, g) ==
    IF alg = "SubstDoc" THEN SubstThen(g, f) ELSE SubstThen(f, g)

RECURSIVE SubstMap(_, _)
SubstMap(x, f) ==
    IF x = << >> THEN << >>
    ELSE <<SubstLetter(f, Head(x))>> \o SubstMap(Tail(x), f)

apply(alg, x, f) == SubstMap(x, f)

\* The operators client code applies: the swap and a constant map.  They do
\* not commute, and they generate all four maps on two letters.
Operators(alg) == {<<"b", "a">>, <<"a", "a">>}

\* The sequence client code builds a tree of n elements from: "abab..."; the
\* contents other than this one arise from it by range_apply.
RECURSIVE Alternating(_)
Alternating(n) ==
    IF n = 0 THEN << >>
    ELSE Append(Alternating(n - 1), IF n % 2 = 1 THEN <<"a">> ELSE <<"b">>)

InitialSlices(alg, n) == {Alternating(n)}

(***************************************************************************)
(* LazySegTree (src/src/ds/lazy_segtree.rs).  The buffers travel through   *)
(* the phases of an operation as a record [data, func].                    *)
(***************************************************************************)
LazyNew(alg, n) ==
    LET m == next_power_of_two(n)
    IN  [alg |-> alg, n |-> n, m |-> m,
         data |-> [i \in 0..(2 * m - 1) |-> identity_s(alg)],
         func |-> [i \in 0..(2 * m - 1) |-> identity_f(alg)]]

\* for i in (1..m).rev() { data[i] = T::op_s(&data[2 * i], &data[2 * i + 1]); }
RECURSIVE LazyBuild(_, _, _)
LazyBuild(alg, data, i) ==
    IF i < 1 THEN data
    ELSE LazyBuild(alg,
                   [data EXCEPT ![i] = op_s(alg, data[2 * i], data[2 * i + 1])],
                   i - 1)

LazyFromSlice(alg, a) ==
    LET n == Len(a)
        m == next_power_of_two(n)
        data == [i \in 0..(2 * m - 1) |->
                    IF m <= i /\ i < m + n THEN a[i - m + 1]
                    ELSE identity_s(alg)]
    IN  [alg |-> alg, n |-> n, m |-> m,
         data |-> LazyBuild(alg, data, m - 1),
         func |-> [i \in 0..(2 * m - 1) |-> identity_f(alg)]]

\* The children's aggregates are updated, their pending operators are not.
pushNoCompose(alg, st, k) ==
    LET f == st.func[k]
    IN  [data |-> [st.data EXCEPT ![2 * k] = apply(alg, @, f),
                                  ![2 * k + 1] = apply(alg, @, f)],
         func |-> [st.func EXCEPT ![k] = identity_f(alg)]]

\* The pending operator of k is read, not taken: func[k] is not reset.
pushKeepPending(alg, st, k) ==
    LET f == st.func[k]
    IN  [data |-> [st.data EXCEPT ![2 * k] = apply(alg, @, f),
                                  ![2 * k + 1] = apply(alg, @, f)],
         func |-> [st.func EXCEPT ![2 * k] = op_f(alg, @, f),
                                  ![2 * k + 1] = op_f(alg, @, f)]]

\* The right child is forgotten.
pushLeftChild(alg, st, k) ==
    LET f == st.func[k]
    IN  [data |-> [st.data EXCEPT ![2 * k] = apply(alg, @, f)],
         func |-> [st.func EXCEPT ![k] = identity_f(alg),
                                  ![2 * k] = op_f(alg, @, f)]]

\* The children's aggregates take their own pending operators, not f.
pushChildPending(alg, st, k) ==
    LET f == st.func[k]
    IN  [data |-> [st.data EXCEPT ![2 * k] = apply(alg, @, st.func[2 * k]),
                                  ![2 * k + 1] = apply(alg, @, st.func[2 * k + 1])],
         func |-> [st.func EXCEPT ![k] = identity_f(alg),
                                  ![2 * k] = op_f(alg, @, f),
                                  ![2 * k + 1] = op_f(alg, @, f)]]

push(alg, st, k) ==
    LET f == st.func[k]
    IN  [data |-> [st.data EXCEPT ![2 * k] = apply(alg, @, f),
                                  ![2 * k + 1] = apply(alg, @, f)],
         func |-> [st.func EXCEPT ![k] = identity_f(alg),
                                  ![2 * k] = op_f(alg, @, f),
                                  ![2 * k + 1] = op_f(alg, @, f)]]

\* The push loop of range_fold driving the operators down the left boundary
\* only.
RECURSIVE FoldPushDownLeft(_, _, _, _, _)
FoldPushDownLeft(alg, st, l, r, k) ==
    IF k < 1 THEN st
    ELSE LET s1 == IF Shl(Shr(l, k), k) # l
                   THEN push(alg, st, Shr(l, k)) ELSE st
         IN  FoldPushDownLeft(alg, s1, l, r, k - 1)

\* range_fold: for k in (1..=m.trailing_zeros()).rev() { push ... }
RECURSIVE FoldPushDown(_, _, _, _, _)
FoldPushDown(alg, st, l, r, k) ==
    IF k < 1 THEN st
    ELSE LET s1 == IF Shl(Shr(l, k), k) # l
                   THEN push(alg, st, Shr(l, k)) ELSE st
             s2 == IF Shl(Shr(r, k), k) # r
                   THEN push(alg, s1, Shr(r - 1, k)) ELSE s1
         IN  FoldPushDown(alg, s2, l, r, k - 1)

\* The boundary walk of LazySegTree::range_fold with its two accumulators.
RECURSIVE LazyFoldWalk(_, _, _, _, _, _)
LazyFoldWalk(alg, data, l, r, left, right) ==
    IF l < r
    THEN LET left1  == IF l % 2 = 1 THEN op_s(alg, left, data[l]) ELSE left
             l1     == IF l % 2 = 1 THEN l + 1 ELSE l
             r1     == IF r % 2 = 1 THEN r - 1 ELSE r
             right1 == IF r % 2 = 1 THEN op_s(alg, data[r1], right) ELSE right
         IN  LazyFoldWalk(alg, data, l1 \div 2, r1 \div 2, left1, right1)
    ELSE op_s(alg, left, right)

\* range_fold without its top-down push phase.
LazyRangeFoldNoPush(t, range, dbg) ==
    LET l == StartOf(range) + t.m
        r == EndOf(range, t.n, t.m) + t.m
    IN  IF dbg /\ ~(l <= r) THEN Panicked(t, "assert")
        ELSE IF dbg /\ ~(r <= t.n + t.m) THEN Panicked(t, "assert")
        ELSE Returned(t, LazyFoldWalk(t.alg, t.data, l, r,
                                      identity_s(t.alg), identity_s(t.alg)))

LazyRangeFold(t, range, dbg) ==
    LET l == StartOf(range) + t.m
        r == EndOf(range, t.n, t.m) + t.m
    IN  IF dbg /\ ~(l <= r) THEN Panicked(t, "assert")
        ELSE IF dbg /\ ~(r <= t.n + t.m) THEN Panicked(t, "assert")
        ELSE LET st == FoldPushDown(t.alg, [data |-> t.data, func |-> t.func],
                                    l, r, trailing_zeros(t.m))
             IN  Returned([t EXCEPT !.data = st.data, !.func = st.func],
                          LazyFoldWalk(t.alg, st.data, l, r,
                                       identity_s(t.alg), identity_s(t.alg)))

\* range_apply: for k in (1..=m.trailing_zeros()).rev() { push ... }
RECURSIVE ApplyPushDown(_, _, _, _, _)
ApplyPushDown(alg, st, l, r, k) ==
    IF k < 1 THEN st
    ELSE LET s1 == IF Shl(Shr(l, k), k) # l
                   THEN push(alg, st, Shr(l, k)) ELSE st
             s2 == IF Shl(Shr(r, k), k) # r
                   THEN push(alg, s1, Shr(r - 1, k)) ELSE s1
         IN  ApplyPushDown(alg, s2, l, r, k - 1)

\* The pending operator composed on the wrong side.
ApplyAtFlipped(alg, st, x, f) ==
    [data |-> [st.data EXCEPT ![x] = apply(alg, @, f)],
     func |-> [st.func EXCEPT ![x] = op_f(alg, f, @)]]

\* T::apply(&mut data[x], f); func[x] = T::op_f(&func[x], f);
ApplyAt(alg, st, x, f) ==
    [data |-> [st.data EXCEPT ![x] = apply(alg, @, f)],
     func |-> [st.func EXCEPT ![x] = op_f(alg, @, f)]]

\* The right side applies f before r is decremented: at r, not at r - 1.
RECURSIVE ApplyWalkAtR(_, _, _, _, _)
ApplyWalkAtR(alg, st, l, r, f) ==
    IF l < r
    THEN LET s1 == IF l % 2 = 1 THEN ApplyAt(alg, st, l, f) ELSE st
             l1 == IF l % 2 = 1 THEN l + 1 ELSE l
             r1 == IF r % 2 = 1 THEN r - 1 ELSE r
             s2 == IF r % 2 = 1 THEN ApplyAt(alg, s1, r, f) ELSE s1
         IN  ApplyWalkAtR(alg, s2, l1 \div 2, r1 \div 2, f)
    ELSE st

\* The boundary walk of range_apply.
RECURSIVE ApplyWalk(_, _, _, _, _)
ApplyWalk(alg, st, l, r, f) ==
    IF l < r
    THEN LET s1 == IF l % 2 = 1 THEN ApplyAt(alg, st, l, f) ELSE st
             l1 == IF l % 2 = 1 THEN l + 1 ELSE l
             r1 == IF r % 2 = 1 THEN r - 1 ELSE r
             s2 == IF r % 2 = 1 THEN ApplyAt(alg, s1, r1, f) ELSE s1
         IN  ApplyWalk(alg, s2, l1 \div 2, r1 \div 2, f)
    ELSE st

\* The aggregate is combined from the left child alone.
PullLeftOnly(alg, st, x) ==
    [st EXCEPT !.data[x] = st.data[2 * x]]

\* data[x] = T::op_s(&data[2 * x], &data[2 * x + 1]);
Pull(alg, st, x) ==
    [st EXCEPT !.data[x] = op_s(alg, st.data[2 * x], st.data[2 * x + 1])]

\* range_apply: for k in 1..=m.trailing_zeros() { recompute ... }
RECURSIVE PullUp(_, _, _, _, _, _)
PullUp(alg, st, l, r, k, top) ==
    IF k > top THEN st
    ELSE LET s1 == IF Shl(Shr(l, k), k) # l
                   THEN Pull(alg, st, Shr(l, k)) ELSE st
             s2 == IF Shl(Shr(r, k), k) # r
                   THEN Pull(alg, s1, Shr(r - 1, k)) ELSE s1
         IN  PullUp(alg, s2, l, r, k + 1, top)

LazyRangeApply(t, range, f, dbg) ==
    LET l == StartOf(range) + t.m
        r == EndOf(range, t.n, t.m) + t.m
        top == trailing_zeros(t.m)
    IN  IF dbg /\ ~(l <= r) THEN Panicked(t, "assert")
        ELSE IF dbg /\ ~(r <= t.n + t.m) THEN Panicked(t, "assert")
        ELSE LET s0 == [data |-> t.data, func |-> t.func]
                 s1 == ApplyPushDown(t.alg, s0, l, r, top)
                 s2 == ApplyWalk(t.alg, s1, l, r, f)
                 s3 == PullUp(t.alg, s2, l, r, 1, top)
             IN  Returned([t EXCEPT !.data = s3.data, !.func = s3.func], Unit)

(***************************************************************************)
(* Reference semantics: the managed sequence as a plain array.             *)
(***************************************************************************)
\* a[l] * a[l + 1] * ... * a[r - 1] with 0-based positions, left to right.
RECURSIVE SegRefFold(_, _, _, _)
SegRefFold(alg, a, l, r) ==
    IF l >= r THEN identity(alg)
    ELSE op(alg, a[l + 1], SegRefFold(alg, a, l + 1, r))

RECURSIVE LazyRefFold(_, _, _, _)
LazyRefFold(alg, a, l, r) ==
    IF l >= r THEN identity_s(alg)
    ELSE op_s(alg, a[l + 1], LazyRefFold(alg, a, l + 1, r))

\* f applied to each of a[l..r).
RefApply(alg, a, l, r, f) ==
    [i \in 1..Len(a) |-> IF l < i /\ i <= r THEN apply(alg, a[i], f) ELSE a[i]]

RECURSIVE Repeat(_, _)
Repeat(x, n) == IF n = 0 THEN << >> ELSE Append(Repeat(x, n - 1), x)

(***************************************************************************)
(* DSU (src/src/data_structure/dsu.rs).  parent[x] is the parent of x, or  *)
(* minus the size of the set when x is a root.  The sizes of the model     *)
(* stay far below the width of i32.                                        *)
(***************************************************************************)
DsuNew(n) == [parent |-> [i \in 0..(n - 1) |-> -1], num_sets |-> n]

\* while self.parent[root] >= 0 { root = self.parent[root] as usize; }
RECURSIVE DsuRoot(_, _)
DsuRoot(parent, x) ==
    IF parent[x] >= 0 THEN DsuRoot(parent, parent[x]) ELSE x

\* while self.parent[x] >= 0 { ...; self.parent[x] = root as i32; x = parent; }
RECURSIVE DsuCompress(_, _, _)
DsuCompress(parent, x, root) ==
    IF parent[x] >= 0
    THEN DsuCompress([parent EXCEPT ![x] = root], parent[x], root)
    ELSE parent

DsuFind(d, x) ==
    LET root == DsuRoot(d.parent, x)
    IN  Returned([d EXCEPT !.parent = DsuCompress(d.parent, x, root)], root)

DsuIsSame(d, x, y) ==
    LET fx == DsuFind(d, x)
        fy == DsuFind(fx.tree, y)
    IN  Returned(fy.tree, fx.ret = fy.ret)

\* The element y itself, not the root of its set, is hung below the root of x.
DsuUnionMoveElement(d, x, y) ==
    LET fx == DsuFind(d, x)
        fy == DsuFind(fx.tree, y)
    IN  IF fx.ret = fy.ret THEN Returned(fy.tree, FALSE)
        ELSE Returned([parent |-> [fy.tree.parent EXCEPT
                                      ![fx.ret] = @ + fy.tree.parent[fy.ret],
                                      ![y] = fx.ret],
                       num_sets |-> fy.tree.num_sets - 1],
                      TRUE)

\* The number of sets is not decreased by a merge.
DsuUnionKeepCount(d, x, y) ==
    LET fx == DsuFind(d, x)
        fy == DsuFind(fx.tree, y)
        big == IF fy.tree.parent[fx.ret] > fy.tree.parent[fy.ret]
               THEN fy.ret ELSE fx.ret
        small == IF big = fx.ret THEN fy.ret ELSE fx.ret
    IN  IF fx.ret = fy.ret THEN Returned(fy.tree, FALSE)
        ELSE Returned([fy.tree EXCEPT
                          !.parent = [@ EXCEPT ![big] = @ + fy.tree.parent[small],
                                               ![small] = big]],
                      TRUE)

\* The size of the absorbed set is not added to the root that absorbs it.
DsuUnionNoSizeSum(d, x, y) ==
    LET fx == DsuFind(d, x)
        fy == DsuFind(fx.tree, y)
        big == IF fy.tree.parent[fx.ret] > fy.tree.parent[fy.ret]
               THEN fy.ret ELSE fx.ret
        small == IF big = fx.ret THEN fy.ret ELSE fx.ret
    IN  IF fx.ret = fy.ret THEN Returned(fy.tree, FALSE)
        ELSE Returned([parent |-> [fy.tree.parent EXCEPT ![small] = big],
                       num_sets |-> fy.tree.num_sets - 1],
                      TRUE)

\* x absorbs y, after the swap that makes x the root of the larger set (the
\* one whose parent entry, minus its size, is the smaller).
DsuUnion(d, x, y) ==
    LET fx == DsuFind(d, x)
        fy == DsuFind(fx.tree, y)
        big == IF fy.tree.parent[fx.ret] > fy.tree.parent[fy.ret]
               THEN fy.ret ELSE fx.ret
        small == IF big = fx.ret THEN fy.ret ELSE fx.ret
    IN  IF fx.ret = fy.ret THEN Returned(fy.tree, FALSE)
        ELSE Returned([parent |-> [fy.tree.parent EXCEPT
                                      ![big] = @ + fy.tree.parent[small],
                                      ![small] = big],
                       num_sets |-> fy.tree.num_sets - 1],
                      TRUE)

DsuSetSize(d, x) ==
    LET f == DsuFind(d, x)
    IN  Returned(f.tree, -f.tree.parent[f.ret])

DsuNumSets(d) == Returned(d, d.num_sets)

DsuLen(d) == Cardinality(DOMAIN d.parent)

\* The reference: the partition of 0..n-1 into singletons, and the partition
\* after the classes of x and y are made one.
Singletons(n) == {{i} : i \in 0..(n - 1)}

ClassOf(classes, x) == CHOOSE c \in classes : x \in c

MergeClasses(classes, x, y) ==
    LET cx == ClassOf(classes, x)
        cy == ClassOf(classes, y)
    IN  (classes \ {cx, cy}) \cup {cx \cup cy}

(***************************************************************************)
(* Group (src/src/algebra/group.rs) and PotentialDSU                       *)
(* (src/src/ds/potential_dsu.rs).  The group of the model is the smallest  *)
(* one that is not commutative: the permutations of three points, a        *)
(* permutation written as the tuple of the images of 1, 2, 3, and          *)
(* op(a, b) = a, then b.                                                   *)
(***************************************************************************)
Permutations3 ==
    {<<x, y, z>> : x \in 1..3, y \in 1..3, z \in 1..3} \
        {g \in {<<x, y, z>> : x \in 1..3, y \in 1..3, z \in 1..3} :
            g[1] = g[2] \/ g[1] = g[3] \/ g[2] = g[3]}

group_identity == <<1, 2, 3>>

group_op(a, b) == <<b[a[1]], b[a[2]], b[a[3]]>>

group_inv(a) == CHOOSE b \in Permutations3 : group_op(a, b) = group_identity

\* The default implementation: op(a, inv(b)).
group_div(a, b) == group_op(a, group_inv(b))

\* The differences client code asks for: a transposition and a rotation.
\* They do not commute, and they generate the group.
AskedDifferences == {<<2, 1, 3>>, <<2, 3, 1>>}

Some(v) == <<"Some", v>>
None == <<"None">>

PdsuNew(n) ==
    [parent |-> [i \in 0..(n - 1) |-> -1],
     potential |-> [i \in 0..(n - 1) |-> group_identity],
     num_sets |-> n]

\* while self.parent[x] >= 0 { x = parent[x]; potential = op(potential[x], potential); }
RECURSIVE PdsuFindWalk(_, _, _)
PdsuFindWalk(d, x, potential) ==
    IF d.parent[x] >= 0
    THEN PdsuFindWalk(d, d.parent[x],
                      group_op(d.potential[d.parent[x]], potential))
    ELSE <<x, potential>>

\* (root of x, potential from the root to x)
PdsuFind(d, x) == PdsuFindWalk(d, x, d.potential[x])

PdsuPotential(d, from, to) ==
    LET f == PdsuFind(d, from)
        t == PdsuFind(d, to)
    IN  IF f[1] = t[1]
        THEN Returned(d, Some(group_op(group_inv(f[2]), t[2])))
        ELSE Returned(d, None)

\* The potential is not inverted when the union-by-size swap is taken.
PdsuUnionNoInv(d, from, to, p) ==
    LET f == PdsuFind(d, from)
        t == PdsuFind(d, to)
        q == group_div(group_op(f[2], p), t[2])
        swap == d.parent[f[1]] > d.parent[t[1]]
        big == IF swap THEN t[1] ELSE f[1]
        small == IF swap THEN f[1] ELSE t[1]
    IN  IF f[1] = t[1] THEN Returned(d, group_op(f[2], p) = t[2])
        ELSE Returned([parent |-> [d.parent EXCEPT
                                      ![big] = @ + d.parent[small],
                                      ![small] = big],
                       potential |-> [d.potential EXCEPT ![small] = q],
                       num_sets |-> d.num_sets - 1],
                      TRUE)

\* A union of two elements of one set is always reported consistent.
PdsuUnionAlwaysTrue(d, from, to, p) ==
    LET f == PdsuFind(d, from)
        t == PdsuFind(d, to)
        q == group_div(group_op(f[2], p), t[2])
        swap == d.parent[f[1]] > d.parent[t[1]]
        big == IF swap THEN t[1] ELSE f[1]
        small == IF swap THEN f[1] ELSE t[1]
    IN  IF f[1] = t[1] THEN Returned(d, TRUE)
        ELSE Returned([parent |-> [d.parent EXCEPT
                                      ![big] = @ + d.parent[small],
                                      ![small] = big],
                       potential |-> [d.potential EXCEPT
                                         ![small] = IF swap THEN group_inv(q)
                                                    ELSE q],
                       num_sets |-> d.num_sets - 1],
                      TRUE)

PdsuUnion(d, from, to, p) ==
    LET f == PdsuFind(d, from)
        t == PdsuFind(d, to)
        q == group_div(group_op(f[2], p), t[2])
        swap == d.parent[f[1]] > d.parent[t[1]]
        big == IF swap THEN t[1] ELSE f[1]
        small == IF swap THEN f[1] ELSE t[1]
    IN  IF f[1] = t[1] THEN Returned(d, group_op(f[2], p) = t[2])
        ELSE Returned([parent |-> [d.parent EXCEPT
                                      ![big] = @ + d.parent[small],
                                      ![small] = big],
                       potential |-> [d.potential EXCEPT
                                         ![small] = IF swap THEN group_inv(q)
                                                    ELSE q],
                       num_sets |-> d.num_sets - 1],
                      TRUE)

PdsuSetSize(d, x) == Returned(d, -d.parent[PdsuFind(d, x)[1]])

PdsuNumSets(d) == Returned(d, d.num_sets)

PdsuLen(d) == Cardinality(DOMAIN d.parent)

\* The reference: the partition, and for every two elements x, y of one class
\* the difference from x to y that the unions made so far have asked for.
\* A union that joins two classes asks for p from `from` to `to`; the
\* difference from an x on the side of `from` to a y on the side of `to` is
\* then (x to from), p, (to to y), and the differences inside the two classes
\* stay as they were.
PdsuRefNew(n) ==
    [classes |-> Singletons(n),
     diff |-> [pair \in {<<i, i>> : i \in 0..(n - 1)} |-> group_identity]]

PdsuRefUnion(ref, from, to, p) ==
    LET cf == ClassOf(ref.classes, from)
        ct == ClassOf(ref.classes, to)
        across(x, y) ==
            group_op(group_op(ref.diff[<<x, from>>], p), ref.diff[<<to, y>>])
    IN  IF cf = ct THEN ref
        ELSE [classes |-> MergeClasses(ref.classes, from, to),
              diff |-> [pair \in (cf \cup ct) \X (cf \cup ct)
                                    \cup DOMAIN ref.diff |->
                          IF pair \in DOMAIN ref.diff THEN ref.diff[pair]
                          ELSE IF pair[1] \in cf
                               THEN across(pair[1], pair[2])
                               ELSE group_inv(across(pair[2], pair[1]))]]

(***************************************************************************)
(* kosaraju (src/src/graph/scc.rs).  e is the slice of edges, in the order *)
(* client code wrote them; the adjacency lists keep that order.            *)
(***************************************************************************)
\* for &(u, v) in e { graph[u].push(v); rev_graph[v].push(u); }
RECURSIVE Adjacency(_, _, _, _)
Adjacency(lists, e, k, reversed) ==
    IF k > Len(e) THEN lists
    ELSE LET u == IF reversed THEN e[k][2] ELSE e[k][1]
             v == IF reversed THEN e[k][1] ELSE e[k][2]
         IN  Adjacency([lists EXCEPT ![u] = Append(@, v)], e, k + 1, reversed)

RECURSIVE _kosaraju_dfs_finish(_, _, _)
RECURSIVE FinishNeighbours(_, _, _, _)
FinishNeighbours(i, graph, st, k) ==
    IF k > Len(graph[i]) THEN st
    ELSE LET j == graph[i][k]
         IN  FinishNeighbours(i, graph,
                              IF j \notin st.used
                              THEN _kosaraju_dfs_finish(j, graph, st)
                              ELSE st,
                              k + 1)

\* st: [used, order]
_kosaraju_dfs_finish(i, graph, st) ==
    LET s1 == FinishNeighbours(i, graph,
                               [st EXCEPT !.used = @ \cup {i}], 1)
    IN  [s1 EXCEPT !.order = Append(@, i)]

RECURSIVE _kosaraju_dfs_collect(_, _, _)
RECURSIVE CollectNeighbours(_, _, _, _)
CollectNeighbours(i, rev_graph, st, k) ==
    IF k > Len(rev_graph[i]) THEN st
    ELSE LET j == rev_graph[i][k]
         IN  CollectNeighbours(i, rev_graph,
                               IF j \notin st.used
                               THEN _kosaraju_dfs_collect(j, rev_graph, st)
                               ELSE st,
                               k + 1)

\* st: [used, component]
_kosaraju_dfs_collect(i, rev_graph, st) ==
    CollectNeighbours(i, rev_graph,
                      [used |-> st.used \cup {i},
                       component |-> Append(st.component, i)],
                      1)

\* for i in 0..n { if !used[i] { _kosaraju_dfs_finish(i, ...) } }
RECURSIVE FinishAll(_, _, _, _)
FinishAll(i, n, graph, st) ==
    IF i >= n THEN st
    ELSE FinishAll(i + 1, n, graph,
                   IF i \notin st.used
                   THEN _kosaraju_dfs_finish(i, graph, st) ELSE st)

\* The finishing order as it is, not reversed.
SameOrder(order) == order

\* order.iter().rev()
RECURSIVE Reversed(_)
Reversed(order) ==
    IF order = << >> THEN << >>
    ELSE Append(Reversed(Tail(order)), Head(order))

\* for &i in order.iter().rev() { if !used[i] { ...; scc.push(component); } }
\* st: [used, scc]
RECURSIVE CollectAll(_, _, _, _)
CollectAll(order, k, rev_graph, st) ==
    IF k > Len(order) THEN st
    ELSE LET i == order[k]
             c == _kosaraju_dfs_collect(i, rev_graph,
                      [used |-> st.used, component |-> << >>])
         IN  CollectAll(order, k + 1, rev_graph,
                        IF i \notin st.used
                        THEN [used |-> c.used, scc |-> Append(st.scc, c.component)]
                        ELSE st)

kosaraju(n, e) ==
    LET empty == [i \in 0..(n - 1) |-> << >>]
        graph == Adjacency(empty, e, 1, FALSE)
        rev_graph == Adjacency(empty, e, 1, TRUE)
        first == FinishAll(0, n, graph, [used |-> {}, order |-> << >>])
        second == CollectAll(Reversed(first.order), 1, rev_graph,
                             [used |-> {}, scc |-> << >>])
    IN  second.scc

\* The slices of at most MaxEdges edges between the vertices 0..n-1.
EdgeSlices(n) ==
    UNION {SeqsOfLen((0..(n - 1)) \X (0..(n - 1)), k) : k \in 0..MaxEdges}

(***************************************************************************)
(* The cache of NTT roots (src/src/math/conv/ntt.rs): a HashMap behind a   *)
(* Mutex.  A thread that panics while it holds the lock unwinds, which     *)
(* drops the guard: the lock is released and the Mutex is poisoned, and    *)
(* lock().unwrap() panics on a poisoned Mutex.  The tables of roots are    *)
(* abstract: compute_ntt_roots is a function of the modulus alone.         *)
(***************************************************************************)
MAX_NTT_LEVELS == 32

\* u32::trailing_zeros: 32 for 0.
trailing_zeros_u32(x) == IF x = 0 THEN MAX_NTT_LEVELS ELSE trailing_zeros(x)

\* The moduli client code instantiates the transform with: two NTT primes,
\* and 1, for which compute_ntt_roots fails its assertion.
Moduli == {1, 17, 998244353}

\* assert!(k < MAX_NTT_LEVELS, ...)
ComputePanics(modulo) == ~(trailing_zeros_u32(modulo - 1) < MAX_NTT_LEVELS)

compute_ntt_roots(modulo) ==
    [modulo |-> modulo, levels |-> trailing_zeros_u32(modulo - 1)]

\* The cache as LazyLock::new builds it, and the threads of the program, none
\* of them in a call.
NttNew(threads) ==
    [threads |-> threads,
     pc |-> [t \in threads |-> "idle"],
     modulo |-> [t \in threads |-> 0],
     locked |-> {},
     poisoned |-> FALSE,
     cache |-> {},
     computed |-> << >>,
     returned |-> {},
     calls |-> 0]

\* The lock is taken whoever holds it.
MutexIgnored(n) == TRUE

\* Mutex::lock blocks while another thread holds the guard.
MutexAvailable(n) == n.locked = {}

\* cache.get(&modulo)
CacheGet(cache, modulo) == {entry \in cache : entry[1] = modulo}

(***************************************************************************)
(* The state machine.  A program owns one structure; the other is absent.  *)
(***************************************************************************)
NoSeg == [alg |-> "none", n |-> 0, m |-> 0, data |-> << >>]
NoLazy == [alg |-> "none", n |-> 0, m |-> 0, data |-> << >>, func |-> << >>]

\* No operation is in progress.  While one is, run holds its name, its
\* position pc, its arguments (range, i, f: the operator, or the value set), the
\* tree t0 it was called on, its locals l, r (the walking pointers), l0, r0
\* (l and r as the push and pull loops see them), k (the level of the push or
\* pull loop), left, right, the value ret it is about to return, iters, the
\* number of iterations of its while loop completed, and log, the buffer
\* accesses made so far as <<kind, slot>>.
NoRun ==
    [op |-> "none", pc |-> "idle", range |-> Unit, i |-> 0, f |-> Unit,
     t0 |-> Unit, l |-> 0, r |-> 0, l0 |-> 0, r0 |-> 0, k |-> 0,
     left |-> Unit, right |-> Unit, ret |-> Unit, iters |-> 0,
     log |-> << >>]

Call(name, valid, l, r, x, out) ==
    [op |-> name, valid |-> valid, l |-> l, r |-> r, x |-> x,
     ret |-> out.ret, end |-> out.end]

LazyCall(valid, out) ==
    [op |-> "range_op", valid |-> valid, l |-> 0, r |-> 0, x |-> Unit,
     ret |-> Unit, end |-> out.end]

Constructed(name) ==
    [op |-> name, valid |-> TRUE, l |-> 0, r |-> 0, x |-> Unit,
     ret |-> Unit, end |-> "ok"]

\* The program runs until a call panics; past a call that broke the contract
\* nothing is specified, and the model follows it no further.
Running == last.end = "ok" /\ last.valid

\* A program that owns no DSU, no PotentialDSU, has called neither kosaraju
\* nor the NTT.
NoDsu == [parent |-> << >>, num_sets |-> -1]
NoPdsu == [parent |-> << >>, potential |-> << >>, num_sets |-> -1]
NoScc == [n |-> 0, e |-> << >>, called |-> FALSE, ret |-> << >>]
NoNtt == NttNew({})

NoPdsuRef == [classes |-> {}, diff |-> << >>]

NoUtilities ==
    /\ dsu = NoDsu /\ dsuRef = {}
    /\ pdsu = NoPdsu /\ pdsuRef = NoPdsuRef
    /\ scc = NoScc
    /\ ntt = NoNtt

InitSeg ==
    /\ NoUtilities
    /\ run = NoRun
    /\ debug \in BOOLEAN
    /\ applied = 0
    /\ lazy = NoLazy
    /\ lazyRef = << >>
    /\ \E alg \in MonoidAlgs, n \in 0..MaxSegN :
          \/ /\ seg = SegNew(alg, n)
             /\ segRef = Repeat(identity(alg), n)
             /\ last = Constructed("new")
          \/ \E a \in SeqsOfLen(MonoidVals(alg), n) :
                /\ seg = SegFromVec(alg, a)
                /\ segRef = a
                /\ last = Constructed("from_vec")

InitLazyWith(alg) ==
    /\ NoUtilities
    /\ run = NoRun
    /\ debug \in BOOLEAN
    /\ applied = 0
    /\ seg = NoSeg
    /\ segRef = << >>
    /\ \E n \in 0..MaxLazyN :
          \/ /\ lazy = LazyNew(alg, n)
             /\ lazyRef = Repeat(identity_s(alg), n)
             /\ last = Constructed("new")
          \/ \E a \in InitialSlices(alg, n) :
                /\ lazy = LazyFromSlice(alg, a)
                /\ lazyRef = a
                /\ last = Constructed("from_slice")

InitLazy == InitLazyWith("Subst")

InitLazyDoc == InitLazyWith("SubstDoc")

\* Positions and ranges a call may be given: the valid ones, and every one up
\* to the capacity m.
ValidIndices(t) == 0..(t.n - 1)
AnyIndices(t) == 0..t.m
SegValidRanges(t) ==
    {range \in CommonForms(t.n) : ValidRange(range, t.n, t.m)}
SegAnyRanges(t) == CommonForms(t.m)
LazyValidRanges(t) ==
    {range \in PlainForms(t.n) : ValidRange(range, t.n, t.m)}
LazyAnyRanges(t) == PlainForms(t.m)

SegSetCall(I) ==
    /\ seg # NoSeg /\ Running
    /\ \E i \in I, x \in MonoidVals(seg.alg) :
          LET out == SegSet(seg, i, x, debug)
          IN  /\ seg' = out.tree
              /\ segRef' = IF i < seg.n /\ out.end = "ok"
                           THEN [segRef EXCEPT ![i + 1] = x] ELSE segRef
              /\ last' = Call("set", i < seg.n, i, i, x, out)
    /\ UNCHANGED <<lazy, lazyRef, debug, applied, utilities, run>>

SegGetCall(I) ==
    /\ seg # NoSeg /\ Running
    /\ \E i \in I :
          LET out == SegGet(seg, i, debug)
          IN  /\ seg' = out.tree
              /\ last' = Call("get", i < seg.n, i, i, Unit, out)
    /\ UNCHANGED <<segRef, lazy, lazyRef, debug, applied, utilities, run>>

SegRangeFoldCall(R) ==
    /\ seg # NoSeg /\ Running
    /\ \E range \in R :
          LET out == SegRangeFold(seg, range, debug)
          IN  /\ seg' = out.tree
              /\ last' = Call("range_fold", ValidRange(range, seg.n, seg.m),
                              StartOf(range), EndOf(range, seg.n, seg.m),
                              Unit, out)
    /\ UNCHANGED <<segRef, lazy, lazyRef, debug, applied, utilities, run>>

SegAllFoldCall ==
    /\ seg # NoSeg /\ Running
    /\ LET out == SegAllFold(seg)
       IN  /\ seg' = out.tree
           /\ last' = Call("all_fold", TRUE, 0, seg.n, Unit, out)
    /\ UNCHANGED <<segRef, lazy, lazyRef, debug, applied, utilities, run>>

LazyRangeFoldCall(R) ==
    /\ lazy # NoLazy /\ Running
    /\ \E range \in R :
          LET out == LazyRangeFold(lazy, range, debug)
          IN  /\ lazy' = out.tree
              /\ last' = LazyCall(ValidRange(range, lazy.n, lazy.m), out)
    /\ UNCHANGED <<seg, segRef, lazyRef, debug, applied, utilities, run>>

LazyRangeApplyCall(R) ==
    /\ lazy # NoLazy /\ Running
    /\ applied < MaxApplies
    /\ applied' = applied + 1
    /\ \E range \in R, f \in Operators(lazy.alg) :
          LET out == LazyRangeApply(lazy, range, f, debug)
              l == StartOf(range)
              r == EndOf(range, lazy.n, lazy.m)
          IN  /\ lazy' = out.tree
              /\ lazyRef' = IF ValidRange(range, lazy.n, lazy.m) /\ out.end = "ok"
                            THEN RefApply(lazy.alg, lazyRef, l, r, f)
                            ELSE lazyRef
              /\ last' = LazyCall(ValidRange(range, lazy.n, lazy.m), out)
    /\ UNCHANGED <<seg, segRef, debug, utilities, run>>

\* Client code that keeps the contract: valid positions and ranges only.
SegSetValid == SegSetCall(ValidIndices(seg))
SegGetValid == SegGetCall(ValidIndices(seg))
SegRangeFoldValid == SegRangeFoldCall(SegValidRanges(seg))
LazyRangeFoldValid == LazyRangeFoldCall(LazyValidRanges(lazy))
LazyRangeApplyValid == LazyRangeApplyCall(LazyValidRanges(lazy))

\* Client code that may break the contract.
SegSetAny == SegSetCall(AnyIndices(seg))
SegGetAny == SegGetCall(AnyIndices(seg))
SegRangeFoldAny == SegRangeFoldCall(SegAnyRanges(seg))
LazyRangeFoldAny == LazyRangeFoldCall(LazyAnyRanges(lazy))
LazyRangeApplyAny == LazyRangeApplyCall(LazyAnyRanges(lazy))

Init == InitSeg \/ InitLazy

Next ==
    \/ SegSetValid
    \/ SegGetValid
    \/ SegRangeFoldValid
    \/ SegAllFoldCall
    \/ LazyRangeFoldValid
    \/ LazyRangeApplyValid

\* Both structures under client code that keeps the contract.
Spec == Init /\ [][Next]_vars

NextSeg ==
    \/ SegSetValid
    \/ SegGetValid
    \/ SegRangeFoldValid
    \/ SegAllFoldCall

\* The SegTree under client code that keeps the contract.
SpecSeg == InitSeg /\ [][NextSeg]_vars

NextLazy ==
    \/ LazyRangeFoldValid
    \/ LazyRangeApplyValid

\* The LazySegTree under client code that keeps the contract.
SpecLazy == InitLazy /\ [][NextLazy]_vars

NextAny ==
    \/ SegSetAny
    \/ SegGetAny
    \/ SegRangeFoldAny
    \/ SegAllFoldCall
    \/ LazyRangeFoldAny
    \/ LazyRangeApplyAny

\* Both structures under client code that may break the contract.
SpecAny == Init /\ [][NextAny]_vars

\* The lazy structure over the action written to the documented laws.
SpecDoc == InitLazyDoc /\ [][NextLazy]_vars

\* A program that owns neither a SegTree nor a LazySegTree.
NoEngine ==
    /\ seg = NoSeg /\ segRef = << >>
    /\ lazy = NoLazy /\ lazyRef = << >>
    /\ applied = 0
    /\ debug \in BOOLEAN
    /\ run = NoRun

InitDsu ==
    /\ NoEngine
    /\ pdsu = NoPdsu /\ pdsuRef = NoPdsuRef /\ scc = NoScc /\ ntt = NoNtt
    /\ \E n \in 0..MaxDsuN :
          /\ dsu = DsuNew(n)
          /\ dsuRef = Singletons(n)
    /\ last = Constructed("new")

DsuIndices == 0..(DsuLen(dsu) - 1)

DsuFindCall ==
    /\ dsu # NoDsu
    /\ \E x \in DsuIndices :
          LET out == DsuFind(dsu, x)
          IN  /\ dsu' = out.tree
              /\ last' = Call("find", TRUE, x, x, Unit, out)
    /\ UNCHANGED <<engine, dsuRef, pdsu, pdsuRef, scc, ntt>>

DsuIsSameCall ==
    /\ dsu # NoDsu
    /\ \E x \in DsuIndices, y \in DsuIndices :
          LET out == DsuIsSame(dsu, x, y)
          IN  /\ dsu' = out.tree
              /\ last' = Call("is_same", TRUE, x, y, Unit, out)
    /\ UNCHANGED <<engine, dsuRef, pdsu, pdsuRef, scc, ntt>>

DsuUnionCall ==
    /\ dsu # NoDsu
    /\ \E x \in DsuIndices, y \in DsuIndices :
          LET out == DsuUnion(dsu, x, y)
          IN  /\ dsu' = out.tree
              /\ dsuRef' = MergeClasses(dsuRef, x, y)
              /\ last' = Call("union", TRUE, x, y, Unit, out)
    /\ UNCHANGED <<engine, pdsu, pdsuRef, scc, ntt>>

DsuSetSizeCall ==
    /\ dsu # NoDsu
    /\ \E x \in DsuIndices :
          LET out == DsuSetSize(dsu, x)
          IN  /\ dsu' = out.tree
              /\ last' = Call("set_size", TRUE, x, x, Unit, out)
    /\ UNCHANGED <<engine, dsuRef, pdsu, pdsuRef, scc, ntt>>

DsuNumSetsCall ==
    /\ dsu # NoDsu
    /\ LET out == DsuNumSets(dsu)
       IN  /\ dsu' = out.tree
           /\ last' = Call("num_sets", TRUE, 0, 0, Unit, out)
    /\ UNCHANGED <<engine, dsuRef, pdsu, pdsuRef, scc, ntt>>

NextDsu ==
    \/ DsuFindCall
    \/ DsuIsSameCall
    \/ DsuUnionCall
    \/ DsuSetSizeCall
    \/ DsuNumSetsCall

\* The DSU under any sequence of calls on its elements.
SpecDsu == InitDsu /\ [][NextDsu]_vars

InitPdsu ==
    /\ NoEngine
    /\ dsu = NoDsu /\ dsuRef = {} /\ scc = NoScc /\ ntt = NoNtt
    /\ \E n \in 0..MaxPdsuN :
          /\ pdsu = PdsuNew(n)
          /\ pdsuRef = PdsuRefNew(n)
    /\ last = Constructed("new")

PdsuIndices == 0..(PdsuLen(pdsu) - 1)

\* A call that reads the structure; the answers are those of the operators.
Query(name) == Call(name, TRUE, 0, 0, Unit, Returned(Unit, Unit))

PdsuFindCall ==
    /\ pdsu # NoPdsu
    /\ \E x \in PdsuIndices : PdsuFind(pdsu, x)[1] \in PdsuIndices
    /\ last' = Query("find")
    /\ UNCHANGED <<engine, dsu, dsuRef, pdsu, pdsuRef, scc, ntt>>

PdsuPotentialCall ==
    /\ pdsu # NoPdsu
    /\ \E from \in PdsuIndices, to \in PdsuIndices :
          PdsuPotential(pdsu, from, to).end = "ok"
    /\ last' = Query("potential")
    /\ UNCHANGED <<engine, dsu, dsuRef, pdsu, pdsuRef, scc, ntt>>

PdsuUnionCall ==
    /\ pdsu # NoPdsu
    /\ \E from \in PdsuIndices, to \in PdsuIndices, p \in AskedDifferences :
          LET out == PdsuUnion(pdsu, from, to, p)
          IN  /\ pdsu' = out.tree
              /\ pdsuRef' = PdsuRefUnion(pdsuRef, from, to, p)
              /\ last' = Call("union", TRUE, from, to, p, out)
    /\ UNCHANGED <<engine, dsu, dsuRef, scc, ntt>>

PdsuSetSizeCall ==
    /\ pdsu # NoPdsu
    /\ \E x \in PdsuIndices : PdsuSetSize(pdsu, x).end = "ok"
    /\ last' = Query("set_size")
    /\ UNCHANGED <<engine, dsu, dsuRef, pdsu, pdsuRef, scc, ntt>>

PdsuNumSetsCall ==
    /\ pdsu # NoPdsu
    /\ last' = Query("num_sets")
    /\ UNCHANGED <<engine, dsu, dsuRef, pdsu, pdsuRef, scc, ntt>>

NextPdsu ==
    \/ PdsuFindCall
    \/ PdsuPotentialCall
    \/ PdsuUnionCall
    \/ PdsuSetSizeCall
    \/ PdsuNumSetsCall

\* The PotentialDSU under any sequence of calls on its elements.
SpecPdsu == InitPdsu /\ [][NextPdsu]_vars

InitScc ==
    /\ NoEngine
    /\ dsu = NoDsu /\ dsuRef = {} /\ pdsu = NoPdsu /\ pdsuRef = NoPdsuRef
    /\ ntt = NoNtt
    /\ \E n \in 0..MaxVertices : \E e \in EdgeSlices(n) :
          scc = [n |-> n, e |-> e, called |-> FALSE, ret |-> << >>]
    /\ last = Constructed("main")

KosarajuCall ==
    /\ scc # NoScc /\ ~scc.called
    /\ scc' = [scc EXCEPT !.called = TRUE, !.ret = kosaraju(scc.n, scc.e)]
    /\ last' = Query("kosaraju")
    /\ UNCHANGED <<engine, dsu, dsuRef, pdsu, pdsuRef, ntt>>

NextScc == KosarajuCall

\* One call of kosaraju on a graph client code built.
SpecScc == InitScc /\ [][NextScc]_vars

InitNtt ==
    /\ NoEngine
    /\ dsu = NoDsu /\ dsuRef = {} /\ pdsu = NoPdsu /\ pdsuRef = NoPdsuRef
    /\ scc = NoScc
    /\ \E k \in 1..MaxThreads : ntt = NttNew(1..k)
    /\ last = Constructed("main")

\* A thread calls get_ntt_roots(modulo).
NttCall(t) ==
    /\ ntt.pc[t] = "idle" /\ ntt.calls < MaxCalls
    /\ \E modulo \in Moduli :
          ntt' = [ntt EXCEPT !.pc[t] = "lock", !.modulo[t] = modulo,
                             !.calls = @ + 1]
    /\ UNCHANGED <<engine, dsu, dsuRef, pdsu, pdsuRef, scc, last>>

\* let mut cache = NTT_ROOTS_CACHE.lock().unwrap();
NttLock(t) ==
    /\ ntt.pc[t] = "lock" /\ MutexAvailable(ntt)
    /\ ntt' = IF ntt.poisoned
              THEN [ntt EXCEPT !.pc[t] = "panicked"]
              ELSE [ntt EXCEPT !.pc[t] = "get", !.locked = @ \cup {t}]
    /\ UNCHANGED <<engine, dsu, dsuRef, pdsu, pdsuRef, scc, last>>

\* if let Some(&roots) = cache.get(&modulo) { roots } else { ... }
NttGet(t) ==
    /\ ntt.pc[t] = "get"
    /\ LET hit == CacheGet(ntt.cache, ntt.modulo[t])
       IN  ntt' = IF hit # {}
                  THEN [ntt EXCEPT !.pc[t] = "idle", !.locked = @ \ {t},
                                   !.returned = @ \cup hit]
                  ELSE [ntt EXCEPT !.pc[t] = "compute"]
    /\ UNCHANGED <<engine, dsu, dsuRef, pdsu, pdsuRef, scc, last>>

\* let roots = compute_ntt_roots(modulo);
NttCompute(t) ==
    /\ ntt.pc[t] = "compute"
    /\ ntt' = IF ComputePanics(ntt.modulo[t])
              THEN [ntt EXCEPT !.pc[t] = "panicked", !.locked = @ \ {t},
                               !.poisoned = TRUE,
                               !.computed = Append(@, ntt.modulo[t])]
              ELSE [ntt EXCEPT !.pc[t] = "insert",
                               !.computed = Append(@, ntt.modulo[t])]
    /\ UNCHANGED <<engine, dsu, dsuRef, pdsu, pdsuRef, scc, last>>

\* cache.insert(modulo, roots); roots
NttInsert(t) ==
    /\ ntt.pc[t] = "insert"
    /\ LET roots == compute_ntt_roots(ntt.modulo[t])
           entry == <<ntt.modulo[t], roots>>
       IN  ntt' = [ntt EXCEPT !.pc[t] = "idle", !.locked = @ \ {t},
                              !.cache = {old \in @ : old[1] # entry[1]}
                                            \cup {entry},
                              !.returned = @ \cup {entry}]
    /\ UNCHANGED <<engine, dsu, dsuRef, pdsu, pdsuRef, scc, last>>

NextNtt ==
    \E t \in ntt.threads :
        \/ NttCall(t)
        \/ NttLock(t)
        \/ NttGet(t)
        \/ NttCompute(t)
        \/ NttInsert(t)

\* Threads calling get_ntt_roots, interleaved in every way.
SpecNtt == InitNtt /\ [][NextNtt]_vars

(***************************************************************************)
(* The operations of the engine statement by statement.  A call is entered *)
(* by a Begin action, advances by one buffer access or one loop test per   *)
(* step, and returns by Return; the tree is mutated in place as it goes,   *)
(* so the states in between are the ones the running code sees.  The calls *)
(* keep the contract, where the assertions of a debug build pass.          *)
(***************************************************************************)
Bufs(t) == [data |-> t.data, func |-> t.func]

WithBufs(t, st) == [t EXCEPT !.data = st.data, !.func = st.func]

Logged(kind, x) == Append(run.log, <<kind, x>>)

Idle == run = NoRun /\ Running

\* SegTree::set without i += self.m.
BeginSetNoOffset ==
    /\ seg # NoSeg /\ Idle
    /\ \E i \in ValidIndices(seg), x \in MonoidVals(seg.alg) :
          /\ seg' = [seg EXCEPT !.data[i] = x]
          /\ run' = [NoRun EXCEPT !.op = "set", !.pc = "set_walk",
                                  !.i = i, !.f = x, !.t0 = seg,
                                  !.l = Shr(i, 1),
                                  !.log = <<<<"write", i>>>>]
    /\ UNCHANGED <<segRef, lazy, lazyRef, debug, applied, last, utilities>>

\* SegTree::set up to its loop: i += m; data[i] = x; i >>= 1;
BeginSet ==
    /\ seg # NoSeg /\ Idle
    /\ \E i \in ValidIndices(seg), x \in MonoidVals(seg.alg) :
          /\ seg' = [seg EXCEPT !.data[i + seg.m] = x]
          /\ run' = [NoRun EXCEPT !.op = "set", !.pc = "set_walk",
                                  !.i = i, !.f = x, !.t0 = seg,
                                  !.l = Shr(i + seg.m, 1),
                                  !.log = <<<<"write", i + seg.m>>>>]
    /\ UNCHANGED <<segRef, lazy, lazyRef, debug, applied, last, utilities>>

\* while i > 0 { data[i] = T::op(&data[2 * i], &data[2 * i + 1]); i >>= 1; }
SetStep ==
    /\ run.op = "set" /\ run.pc = "set_walk"
    /\ IF run.l > 0
       THEN /\ seg' = [seg EXCEPT !.data[run.l] =
                          op(seg.alg, seg.data[2 * run.l],
                             seg.data[2 * run.l + 1])]
            /\ run' = [run EXCEPT !.l = Shr(run.l, 1),
                                  !.iters = run.iters + 1,
                                  !.log = Logged("pull", run.l)]
       ELSE /\ seg' = seg
            /\ run' = [run EXCEPT !.pc = "return"]
    /\ UNCHANGED <<segRef, lazy, lazyRef, debug, applied, last, utilities>>

\* SegTree::get: &self.data[i + self.m]
GetStep ==
    /\ seg # NoSeg /\ Idle
    /\ \E i \in ValidIndices(seg) :
          run' = [NoRun EXCEPT !.op = "get", !.pc = "return", !.i = i,
                                !.t0 = seg, !.ret = seg.data[i + seg.m],
                                !.log = <<<<"read", i + seg.m>>>>]
    /\ UNCHANGED <<seg, segRef, lazy, lazyRef, debug, applied, last,
                   utilities>>

\* SegTree::all_fold: self.data[1].clone()
AllFoldStep ==
    /\ seg # NoSeg /\ Idle
    /\ run' = [NoRun EXCEPT !.op = "all_fold", !.pc = "return", !.t0 = seg,
                            !.ret = seg.data[1], !.log = <<<<"read", 1>>>>]
    /\ UNCHANGED <<seg, segRef, lazy, lazyRef, debug, applied, last,
                   utilities>>

\* SegTree::range_fold up to its loop.
BeginSegFold ==
    /\ seg # NoSeg /\ Idle
    /\ \E range \in SegValidRanges(seg) :
          LET l == StartOf(range) + seg.m
              r == EndOf(range, seg.n, seg.m) + seg.m
          IN  run' = [NoRun EXCEPT !.op = "seg_range_fold", !.pc = "walk_l",
                                   !.range = range, !.t0 = seg,
                                   !.l = l, !.r = r, !.l0 = l, !.r0 = r,
                                   !.left = identity(seg.alg),
                                   !.right = identity(seg.alg)]
    /\ UNCHANGED <<seg, segRef, lazy, lazyRef, debug, applied, last,
                   utilities>>

\* while l < r { if l & 1 == 1 { left = T::op(&left, &data[l]); l += 1; } ...
SegWalkL ==
    /\ run.op = "seg_range_fold" /\ run.pc = "walk_l"
    /\ run' = IF run.l < run.r
              THEN IF run.l % 2 = 1
                   THEN [run EXCEPT !.pc = "walk_r",
                            !.left = op(seg.alg, run.left, seg.data[run.l]),
                            !.l = run.l + 1,
                            !.log = Logged("read", run.l)]
                   ELSE [run EXCEPT !.pc = "walk_r"]
              ELSE [run EXCEPT !.pc = "return",
                       !.ret = op(seg.alg, run.left, run.right)]
    /\ UNCHANGED <<seg, segRef, lazy, lazyRef, debug, applied, last,
                   utilities>>

\* ... if r & 1 == 1 { r -= 1; right = T::op(&data[r], &right); }
\*     l >>= 1; r >>= 1; }
SegWalkR ==
    /\ run.op = "seg_range_fold" /\ run.pc = "walk_r"
    /\ run' = IF run.r % 2 = 1
              THEN [run EXCEPT !.pc = "walk_l",
                       !.right = op(seg.alg, seg.data[run.r - 1], run.right),
                       !.l = Shr(run.l, 1), !.r = Shr(run.r - 1, 1),
                       !.iters = run.iters + 1,
                       !.log = Logged("read", run.r - 1)]
              ELSE [run EXCEPT !.pc = "walk_l",
                       !.l = Shr(run.l, 1), !.r = Shr(run.r, 1),
                       !.iters = run.iters + 1]
    /\ UNCHANGED <<seg, segRef, lazy, lazyRef, debug, applied, last,
                   utilities>>

\* LazySegTree::range_fold and range_apply up to the push loop.
BeginLazy(name, F) ==
    /\ lazy # NoLazy /\ Idle
    /\ \E range \in LazyValidRanges(lazy), f \in F :
          LET l == StartOf(range) + lazy.m
              r == EndOf(range, lazy.n, lazy.m) + lazy.m
          IN  run' = [NoRun EXCEPT !.op = name, !.pc = "push_l",
                                   !.range = range, !.f = f, !.t0 = lazy,
                                   !.l = l, !.r = r, !.l0 = l, !.r0 = r,
                                   !.k = trailing_zeros(lazy.m),
                                   !.left = identity_s(lazy.alg),
                                   !.right = identity_s(lazy.alg)]
    /\ UNCHANGED <<seg, segRef, lazy, lazyRef, debug, applied, last,
                   utilities>>

BeginLazyFold == BeginLazy("range_fold", {identity_f(lazy.alg)})

BeginLazyApply ==
    /\ applied < MaxApplies
    /\ BeginLazy("range_apply", Operators(lazy.alg))

InLazy == run.op \in {"range_fold", "range_apply"}

\* for k in (1..=m.trailing_zeros()).rev() {
\*     if (l >> k) << k != l { self.push(l >> k); } ...
PushL ==
    /\ InLazy /\ run.pc = "push_l"
    /\ IF run.k < 1
       THEN /\ run' = [run EXCEPT !.pc = "walk_l"]
            /\ lazy' = lazy
       ELSE IF Shl(Shr(run.l0, run.k), run.k) # run.l0
       THEN /\ run' = [run EXCEPT !.pc = "push_r",
                          !.log = Logged("push", Shr(run.l0, run.k))]
            /\ lazy' = WithBufs(lazy, push(lazy.alg, Bufs(lazy),
                                           Shr(run.l0, run.k)))
       ELSE /\ run' = [run EXCEPT !.pc = "push_r"]
            /\ lazy' = lazy
    /\ UNCHANGED <<seg, segRef, lazyRef, debug, applied, last, utilities>>

\* The push loop drives the operators down the left boundary only.
PushRSkipped ==
    /\ InLazy /\ run.pc = "push_r"
    /\ run' = [run EXCEPT !.pc = "push_l", !.k = run.k - 1]
    /\ UNCHANGED <<seg, segRef, lazy, lazyRef, debug, applied, last,
                   utilities>>

\* ... if (r >> k) << k != r { self.push((r - 1) >> k); } }
PushR ==
    /\ InLazy /\ run.pc = "push_r"
    /\ IF Shl(Shr(run.r0, run.k), run.k) # run.r0
       THEN /\ run' = [run EXCEPT !.pc = "push_l", !.k = run.k - 1,
                          !.log = Logged("push", Shr(run.r0 - 1, run.k))]
            /\ lazy' = WithBufs(lazy, push(lazy.alg, Bufs(lazy),
                                           Shr(run.r0 - 1, run.k)))
       ELSE /\ run' = [run EXCEPT !.pc = "push_l", !.k = run.k - 1]
            /\ lazy' = lazy
    /\ UNCHANGED <<seg, segRef, lazyRef, debug, applied, last, utilities>>

\* while l < r { if l & 1 == 1 { <fold or apply at l>; l += 1; } ...
\* and, past the loop, the return of range_fold or the entry of the pull loop.
WalkL ==
    /\ InLazy /\ run.pc = "walk_l"
    /\ IF run.l < run.r
       THEN IF run.l % 2 = 1
            THEN IF run.op = "range_fold"
                 THEN /\ run' = [run EXCEPT !.pc = "walk_r",
                                    !.left = op_s(lazy.alg, run.left,
                                                  lazy.data[run.l]),
                                    !.l = run.l + 1,
                                    !.log = Logged("read", run.l)]
                      /\ lazy' = lazy
                 ELSE /\ run' = [run EXCEPT !.pc = "walk_r",
                                    !.l = run.l + 1,
                                    !.log = Logged("apply", run.l)]
                      /\ lazy' = WithBufs(lazy, ApplyAt(lazy.alg, Bufs(lazy),
                                                        run.l, run.f))
            ELSE /\ run' = [run EXCEPT !.pc = "walk_r"]
                 /\ lazy' = lazy
       ELSE /\ run' = IF run.op = "range_fold"
                      THEN [run EXCEPT !.pc = "return",
                               !.ret = op_s(lazy.alg, run.left, run.right)]
                      ELSE [run EXCEPT !.pc = "pull_l", !.k = 1]
            /\ lazy' = lazy
    /\ UNCHANGED <<seg, segRef, lazyRef, debug, applied, last, utilities>>

\* The walk without its two shifts: the pointers stay on their level.
WalkRNoShift ==
    /\ InLazy /\ run.pc = "walk_r"
    /\ IF run.r % 2 = 1
       THEN IF run.op = "range_fold"
            THEN /\ run' = [run EXCEPT !.pc = "walk_l",
                               !.right = op_s(lazy.alg, lazy.data[run.r - 1],
                                              run.right),
                               !.r = run.r - 1,
                               !.iters = run.iters + 1,
                               !.log = Logged("read", run.r - 1)]
                 /\ lazy' = lazy
            ELSE /\ run' = [run EXCEPT !.pc = "walk_l",
                               !.r = run.r - 1,
                               !.iters = run.iters + 1,
                               !.log = Logged("apply", run.r - 1)]
                 /\ lazy' = WithBufs(lazy, ApplyAt(lazy.alg, Bufs(lazy),
                                                   run.r - 1, run.f))
       ELSE /\ run' = [run EXCEPT !.pc = "walk_l", !.iters = run.iters + 1]
            /\ lazy' = lazy
    /\ UNCHANGED <<seg, segRef, lazyRef, debug, applied, last, utilities>>

\* ... if r & 1 == 1 { r -= 1; <fold or apply at r>; } l >>= 1; r >>= 1; }
WalkR ==
    /\ InLazy /\ run.pc = "walk_r"
    /\ IF run.r % 2 = 1
       THEN IF run.op = "range_fold"
            THEN /\ run' = [run EXCEPT !.pc = "walk_l",
                               !.right = op_s(lazy.alg, lazy.data[run.r - 1],
                                              run.right),
                               !.l = Shr(run.l, 1), !.r = Shr(run.r - 1, 1),
                               !.iters = run.iters + 1,
                               !.log = Logged("read", run.r - 1)]
                 /\ lazy' = lazy
            ELSE /\ run' = [run EXCEPT !.pc = "walk_l",
                               !.l = Shr(run.l, 1), !.r = Shr(run.r - 1, 1),
                               !.iters = run.iters + 1,
                               !.log = Logged("apply", run.r - 1)]
                 /\ lazy' = WithBufs(lazy, ApplyAt(lazy.alg, Bufs(lazy),
                                                   run.r - 1, run.f))
       ELSE /\ run' = [run EXCEPT !.pc = "walk_l",
                          !.l = Shr(run.l, 1), !.r = Shr(run.r, 1),
                          !.iters = run.iters + 1]
            /\ lazy' = lazy
    /\ UNCHANGED <<seg, segRef, lazyRef, debug, applied, last, utilities>>

\* for k in 1..=m.trailing_zeros() {
\*     if (l >> k) << k != l { data[l >> k] = op_s(...); } ...
PullL ==
    /\ run.op = "range_apply" /\ run.pc = "pull_l"
    /\ IF run.k > trailing_zeros(lazy.m)
       THEN /\ run' = [run EXCEPT !.pc = "return"]
            /\ lazy' = lazy
       ELSE IF Shl(Shr(run.l0, run.k), run.k) # run.l0
       THEN /\ run' = [run EXCEPT !.pc = "pull_r",
                          !.log = Logged("pull", Shr(run.l0, run.k))]
            /\ lazy' = WithBufs(lazy, Pull(lazy.alg, Bufs(lazy),
                                           Shr(run.l0, run.k)))
       ELSE /\ run' = [run EXCEPT !.pc = "pull_r"]
            /\ lazy' = lazy
    /\ UNCHANGED <<seg, segRef, lazyRef, debug, applied, last, utilities>>

\* The pull loop recomputes the ancestors of l only.
PullRSkipped ==
    /\ run.op = "range_apply" /\ run.pc = "pull_r"
    /\ run' = [run EXCEPT !.pc = "pull_l", !.k = run.k + 1]
    /\ UNCHANGED <<seg, segRef, lazy, lazyRef, debug, applied, last,
                   utilities>>

\* ... if (r >> k) << k != r { data[(r - 1) >> k] = op_s(...); } }
PullR ==
    /\ run.op = "range_apply" /\ run.pc = "pull_r"
    /\ IF Shl(Shr(run.r0, run.k), run.k) # run.r0
       THEN /\ run' = [run EXCEPT !.pc = "pull_l", !.k = run.k + 1,
                          !.log = Logged("pull", Shr(run.r0 - 1, run.k))]
            /\ lazy' = WithBufs(lazy, Pull(lazy.alg, Bufs(lazy),
                                           Shr(run.r0 - 1, run.k)))
       ELSE /\ run' = [run EXCEPT !.pc = "pull_l", !.k = run.k + 1]
            /\ lazy' = lazy
    /\ UNCHANGED <<seg, segRef, lazyRef, debug, applied, last, utilities>>

\* The call returns to the client; the reference array follows a set and a
\* range_apply.
Return ==
    /\ run.pc = "return"
    /\ run' = NoRun
    /\ last' = Constructed("returned")
    /\ segRef' = IF run.op = "set"
                 THEN [segRef EXCEPT ![run.i + 1] = run.f] ELSE segRef
    /\ lazyRef' = IF run.op = "range_apply"
                  THEN RefApply(lazy.alg, lazyRef, StartOf(run.range),
                                EndOf(run.range, lazy.n, lazy.m), run.f)
                  ELSE lazyRef
    /\ applied' = IF run.op = "range_apply" THEN applied + 1 ELSE applied
    /\ UNCHANGED <<seg, lazy, debug, utilities>>

NextSteps ==
    \/ BeginSet
    \/ SetStep
    \/ GetStep
    \/ AllFoldStep
    \/ BeginSegFold
    \/ SegWalkL
    \/ SegWalkR
    \/ BeginLazyFold
    \/ BeginLazyApply
    \/ PushL
    \/ PushR
    \/ WalkL
    \/ WalkR
    \/ PullL
    \/ PullR
    \/ Return

\* The statements are those of a release build: the calls keep the contract,
\* so the assertions a debug build adds pass and change no buffer.
InitSteps == Init /\ ~debug

\* Both structures, their operations taken statement by statement.
SpecSteps == InitSteps /\ [][NextSteps]_vars

\* The statements of a call, as opposed to its entry.  A call borrows the
\* tree mutably and runs on its caller's thread, with no lock, no await and no
\* callback: once entered, its next statement is eventually executed.
Advance ==
    \/ SetStep
    \/ SegWalkL
    \/ SegWalkR
    \/ PushL
    \/ PushR
    \/ WalkL
    \/ WalkR
    \/ PullL
    \/ PullR
    \/ Return

SpecStepsFair == SpecSteps /\ WF_vars(Advance)

(***************************************************************************)
(* Properties.                                                             *)
(***************************************************************************)
HasSeg == seg # NoSeg
HasLazy == lazy # NoLazy

\* The internal slots of a tree of capacity m, and the slots a half-open range
\* of leaves [l, r) (in slot space) is made of: the maximal subtrees inside it.
Internal(m) == 1..(m - 1)

RECURSIVE LeafLo(_, _)
LeafLo(m, k) == IF k >= m THEN k ELSE LeafLo(m, 2 * k)

RECURSIVE LeafHi(_, _)
LeafHi(m, k) == IF k >= m THEN k ELSE LeafHi(m, 2 * k + 1)

Inside(m, k, l, r) == l <= LeafLo(m, k) /\ LeafHi(m, k) < r

Cover(m, l, r) ==
    {k \in 1..(2 * m - 1) :
        Inside(m, k, l, r) /\ (k = 1 \/ ~Inside(m, k \div 2, l, r))}

Pending(t) == {k \in Internal(t.m) : t.func[k] # identity_f(t.alg)}

\* C1: after any sequence of valid range_apply and range_fold calls on a
\* LazySegTree built by new or from_slice, every range_fold(l..r) returns
\* op_s(b[l], ..., b[r-1]) combined left to right (identity_s when l = r),
\* where b is the reference array to which each range_apply was applied
\* element-wise.
C1_LazyMatchesReference ==
    HasLazy =>
        \A l \in 0..lazy.n : \A r \in l..lazy.n :
            LET out == LazyRangeFold(lazy, HalfOpen(l, r), debug)
            IN  /\ out.end = "ok"
                /\ out.ret = LazyRefFold(lazy.alg, lazyRef, l, r)

\* A range_apply has left an operator pending at an internal slot of a tree of
\* three elements that are not all equal, and the fold of the whole sequence
\* reads through it.
C1_Witness ==
    /\ HasLazy /\ lazy.n = 3
    /\ applied > 0
    /\ Pending(lazy) # {}
    /\ lazyRef[1] # lazyRef[2]
    /\ LazyRangeFold(lazy, HalfOpen(0, 3), debug).ret
          = lazyRef[1] \o lazyRef[2] \o lazyRef[3]

\* C2: SegTree::range_fold(l..r) returns op(a[l], ..., a[r-1]) with the
\* operands in their original left-to-right order (the identity when l = r),
\* after new or from_vec and any sequence of set calls, for non-commutative
\* monoids too.
C2_SegRangeFoldCorrect ==
    /\ (HasSeg /\ last.op = "range_fold") =>
          /\ last.end = "ok"
          /\ last.ret = SegRefFold(seg.alg, segRef, last.l, last.r)
    /\ HasSeg =>
          \A l \in 0..seg.n : \A r \in l..seg.n :
              SegRangeFold(seg, HalfOpen(l, r), debug).ret
                  = SegRefFold(seg.alg, segRef, l, r)

\* A range_fold over three elements has returned "bab" or "aab": a result
\* that any other operand order would change.
C2_Witness ==
    /\ HasSeg /\ seg.alg = "Concat" /\ seg.n = 3
    /\ last.op = "range_fold" /\ last.l = 0 /\ last.r = 3
    /\ last.ret \in {<<"b", "a", "b">>, <<"a", "a", "b">>}

\* C3: after set(i, x) returns, get(i) = x and range_fold(i..i+1) = x, and
\* get(j) is unchanged for every j # i.
C3_SetObservableAtItsPosition ==
    [][(HasSeg /\ last'.op = "set") =>
          /\ last'.end = "ok"
          /\ SegGet(seg', last'.l, debug).ret = last'.x
          /\ SegRangeFold(seg', HalfOpen(last'.l, last'.l + 1), debug).ret
                = last'.x
          /\ \A j \in ValidIndices(seg) \ {last'.l} :
                SegGet(seg', j, debug).ret = SegGet(seg, j, debug).ret
      ]_vars

\* set(1, x) has changed the middle one of three elements.
C3_Witness ==
    /\ HasSeg /\ seg.n = 3
    /\ last.op = "set" /\ last.l = 1 /\ last.x # identity(seg.alg)
    /\ SegGet(seg, 1, debug).ret = last.x
    /\ SegGet(seg, 0, debug).ret # last.x

\* The three folds of a split, run one after another on the same lazy tree.
LazySplitFolds(t, l, mid, r, dbg) ==
    LET whole == LazyRangeFold(t, HalfOpen(l, r), dbg)
        left  == LazyRangeFold(whole.tree, HalfOpen(l, mid), dbg)
        right == LazyRangeFold(left.tree, HalfOpen(mid, r), dbg)
    IN  whole.ret = op_s(t.alg, left.ret, right.ret)

\* C4: in every reachable state and for all 0 <= l <= mid <= r <= n,
\* range_fold(l..r) = op(range_fold(l..mid), range_fold(mid..r)) with the left
\* part as the left operand, for the SegTree, and for the LazySegTree with the
\* three folds run one after another while operators are pending.
C4_SplittingConsistency ==
    /\ HasSeg =>
          \A l \in 0..seg.n : \A mid \in l..seg.n : \A r \in mid..seg.n :
              SegRangeFold(seg, HalfOpen(l, r), debug).ret
                  = op(seg.alg,
                       SegRangeFold(seg, HalfOpen(l, mid), debug).ret,
                       SegRangeFold(seg, HalfOpen(mid, r), debug).ret)
    /\ HasLazy =>
          \A l \in 0..lazy.n : \A mid \in l..lazy.n : \A r \in mid..lazy.n :
              LazySplitFolds(lazy, l, mid, r, debug)

\* The root of a lazy tree of three elements has an operator pending over two
\* halves that differ, so that a split at 1 or 2 reads through it.
C4_Witness ==
    /\ HasLazy /\ lazy.n = 3
    /\ lazy.func[2] # identity_f(lazy.alg)
    /\ lazy.data[2] \in {<<"a", "b">>, <<"b", "a">>}
    /\ LazySplitFolds(lazy, 0, 1, 3, debug)

AllOperators == {<<x, y>> : x \in Letters, y \in Letters}
ShortStrings == SeqsOfLen(Letters, 0) \cup SeqsOfLen(Letters, 1)
                    \cup SeqsOfLen(Letters, 2)

DocumentedLaws(alg) ==
    /\ \A f \in AllOperators : \A a \in ShortStrings : \A b \in ShortStrings :
          apply(alg, op_s(alg, a, b), f)
              = op_s(alg, apply(alg, a, f), apply(alg, b, f))
    /\ \A f \in AllOperators : \A g \in AllOperators : \A x \in ShortStrings :
          apply(alg, x, op_f(alg, f, g)) = apply(alg, apply(alg, x, g), f)
    /\ \A x \in ShortStrings : apply(alg, x, identity_f(alg)) = x

\* C6: for a MonoidAction that satisfies the laws as documented on the trait
\* (homomorphism, (f * g)(x) = f(g(x)) with f * g = op_f(f, g), identity),
\* every range_fold(l..r) of the LazySegTree equals the fold of the
\* element-wise reference after any sequence of valid range_apply calls.
C6_DocumentedLawsConform ==
    (HasLazy /\ DocumentedLaws(lazy.alg)) =>
        \A l \in 0..lazy.n : \A r \in l..lazy.n :
            LazyRangeFold(lazy, HalfOpen(l, r), debug).ret
                = LazyRefFold(lazy.alg, lazyRef, l, r)

RangeOps == {"range_fold", "range_op"}

\* C7: SegTree::range_fold, LazySegTree::range_fold and
\* LazySegTree::range_apply called with a normalised range [l, r) where
\* l > r or r > n end in a panic, return no value and leave every slot of
\* both buffers as it was.
C7_InvalidRangesFatal ==
    [][(last'.op \in RangeOps /\ ~last'.valid) =>
          /\ last'.end # "ok"
          /\ seg' = seg
          /\ lazy' = lazy
      ]_vars

\* C8: SegTree::set(i, x) and SegTree::get(i) with i >= n end in a panic; set
\* writes no slot (no padding leaf, no aggregate) and get returns no value.
C8_InvalidIndicesFatal ==
    [][(last'.op \in {"set", "get"} /\ ~last'.valid) =>
          /\ last'.end # "ok"
          /\ seg' = seg
      ]_vars

\* C9: right after SegTree::new(n), range_fold(l..r) for every
\* 0 <= l <= r <= n (the whole range 0..n among them) and all_fold() return
\* the identity, and right after LazySegTree::new(n) every range_fold(l..r)
\* returns identity_s; for every n, 0, 1 and the non-powers of two included.
C9_NewFoldsToIdentity ==
    /\ (HasSeg /\ last.op = "new") =>
          /\ SegAllFold(seg).ret = identity(seg.alg)
          /\ \A l \in 0..seg.n : \A r \in l..seg.n :
                LET out == SegRangeFold(seg, HalfOpen(l, r), debug)
                IN  out.end = "ok" /\ out.ret = identity(seg.alg)
    /\ (HasLazy /\ last.op = "new") =>
          \A l \in 0..lazy.n : \A r \in l..lazy.n :
              LET out == LazyRangeFold(lazy, HalfOpen(l, r), debug)
              IN  out.end = "ok" /\ out.ret = identity_s(lazy.alg)

\* SegTree::new(3), whose capacity 4 leaves one padding leaf, folds to the
\* identity of the affine monoid over its whole range.
C9_Witness ==
    /\ HasSeg /\ last.op = "new"
    /\ seg.alg = "Affine" /\ seg.n = 3 /\ seg.m = 4
    /\ SegRangeFold(seg, HalfOpen(0, 3), debug).ret = <<1, 0>>

\* C10: in every reachable state all_fold() equals range_fold(0..n) and the
\* product a[0] * ... * a[n-1] of the sequence, and an all_fold() call
\* returns that value; for every n, 0, 1 and the non-powers of two included.
C10_AllFoldIsWholeFold ==
    HasSeg =>
        LET whole == SegRefFold(seg.alg, segRef, 0, seg.n)
        IN  /\ SegAllFold(seg).ret = whole
            /\ SegAllFold(seg).ret
                  = SegRangeFold(seg, [start |-> Unbounded, end |-> Unbounded],
                                 debug).ret
            /\ SegAllFold(seg).ret
                  = SegRangeFold(seg, HalfOpen(0, seg.n), debug).ret
            /\ last.op = "all_fold" => (last.end = "ok" /\ last.ret = whole)

\* all_fold() has returned "bab" or "aab" from a tree of three elements (one
\* padding leaf) that reached that content through a set.
C10_Witness ==
    /\ HasSeg /\ seg.alg = "Concat" /\ seg.n = 3
    /\ last.op = "all_fold"
    /\ last.ret \in {<<"b", "a", "b">>, <<"a", "a", "b">>}

\* The half-open range [l, r) a range argument stands for in a structure of n
\* elements.
NormStart(range) ==
    IF range.start = Unbounded THEN 0
    ELSE IF range.start[1] = "Included" THEN range.start[2]
    ELSE range.start[2] + 1

NormEnd(range, n) ==
    IF range.end = Unbounded THEN n
    ELSE IF range.end[1] = "Included" THEN range.end[2] + 1
    ELSE range.end[2]

ValidForms(n) ==
    {range \in RangeForms(n) :
        NormStart(range) <= NormEnd(range, n) /\ NormEnd(range, n) <= n}

\* C11: all three range operations read a range argument as the half-open
\* [l, r) with l = 0 / x / x + 1 for an unbounded / inclusive / exclusive
\* start and r = n / x + 1 / x for an unbounded / inclusive / exclusive end:
\* called with any form of a valid range they do what they do called with
\* l..r, so range_fold(a..=b) = range_fold(a..b+1) and
\* range_fold(..) = range_fold(0..n), and likewise for range_apply.
C11_RangeNormalisation ==
    /\ HasSeg =>
          \A range \in ValidForms(seg.n) :
              LET l == NormStart(range)
                  r == NormEnd(range, seg.n)
                  out == SegRangeFold(seg, range, debug)
              IN  /\ out = SegRangeFold(seg, HalfOpen(l, r), debug)
                  /\ out.end = "ok"
                  /\ out.ret = SegRefFold(seg.alg, segRef, l, r)
    /\ HasLazy =>
          \A range \in ValidForms(lazy.n) :
              LET l == NormStart(range)
                  r == NormEnd(range, lazy.n)
                  out == LazyRangeFold(lazy, range, debug)
              IN  /\ out = LazyRangeFold(lazy, HalfOpen(l, r), debug)
                  /\ out.end = "ok"
                  /\ out.ret = LazyRefFold(lazy.alg, lazyRef, l, r)
                  /\ \A f \in Operators(lazy.alg) :
                        LET done == LazyRangeApply(lazy, range, f, debug)
                        IN  /\ done = LazyRangeApply(lazy, HalfOpen(l, r),
                                                     f, debug)
                            /\ done.end = "ok"

\* On a SegTree of three elements (capacity four) that are not all equal,
\* whose whole range has just been folded, range_fold(..) returns the product of the three and a fold from an
\* exclusive start to an inclusive end, (0, 2], that of the last two.
C11_Witness ==
    /\ HasSeg /\ seg.alg = "Concat" /\ seg.n = 3 /\ seg.m = 4
    /\ last.op = "range_fold" /\ last.l = 0 /\ last.r = 3
    /\ segRef[2] # segRef[3] /\ segRef[2] # << >> /\ segRef[3] # << >>
    /\ SegRangeFold(seg, [start |-> Unbounded, end |-> Unbounded], debug).ret
          = segRef[1] \o segRef[2] \o segRef[3]
    /\ SegRangeFold(seg, [start |-> Excluded(0), end |-> Included(2)],
                    debug).ret
          = segRef[2] \o segRef[3]

RECURSIVE IsPowerOfTwo(_)
IsPowerOfTwo(m) == m = 1 \/ (m > 1 /\ m % 2 = 0 /\ IsPowerOfTwo(m \div 2))

\* m is the smallest power of two that is at least n.
SmallestPowerOfTwo(m, n) ==
    IsPowerOfTwo(m) /\ m >= n /\ (m = 1 \/ m \div 2 < n)

SegGeometry(t) ==
    SmallestPowerOfTwo(t.m, t.n) /\ DOMAIN t.data = 0..(2 * t.m - 1)

LazyGeometry(t) ==
    /\ SmallestPowerOfTwo(t.m, t.n)
    /\ DOMAIN t.data = 0..(2 * t.m - 1)
    /\ DOMAIN t.func = 0..(2 * t.m - 1)

\* C12: m is the smallest power of two >= n (1 for n = 0 and n = 1), the
\* aggregate buffer and the pending buffer have exactly 2m slots, and no
\* set, get, range_fold, all_fold or range_apply changes n, m or the length
\* of a buffer.
C12_GeometryFixed ==
    [][/\ HasSeg =>
             /\ SegGeometry(seg) /\ SegGeometry(seg')
             /\ seg'.n = seg.n /\ seg'.m = seg.m
             /\ DOMAIN seg'.data = DOMAIN seg.data
       /\ HasLazy =>
             /\ LazyGeometry(lazy) /\ LazyGeometry(lazy')
             /\ lazy'.n = lazy.n /\ lazy'.m = lazy.m
             /\ DOMAIN lazy'.data = DOMAIN lazy.data
             /\ DOMAIN lazy'.func = DOMAIN lazy.func
      ]_vars

\* A LazySegTree of three elements has capacity four and two buffers of
\* eight slots after a range_apply.
C12_Witness ==
    /\ HasLazy /\ lazy.n = 3 /\ applied > 0
    /\ lazy.m = 4
    /\ DOMAIN lazy.data = 0..7 /\ DOMAIN lazy.func = 0..7

HasDsu == dsu # NoDsu

\* The partition the parent array stands for: the elements with one root.
DsuClasses(d) ==
    {{y \in DOMAIN d.parent : DsuRoot(d.parent, y) = DsuRoot(d.parent, x)} :
        x \in DOMAIN d.parent}

\* C13: in every state reached from DSU::new(n) by union, find, is_same and
\* set_size calls, is_same(x, y) is true iff x and y are in one class of the
\* partition the unions made so far generate from the singletons,
\* find(x) = find(y) iff they are, and find(x) is in the class of x; a find
\* or is_same call that was made returned accordingly.
C13_DsuAgreesWithPartition ==
    HasDsu =>
        /\ \A x \in DsuIndices : \A y \in DsuIndices :
              LET together == ClassOf(dsuRef, x) = ClassOf(dsuRef, y)
                  fx == DsuFind(dsu, x)
                  fy == DsuFind(fx.tree, y)
              IN  /\ DsuIsSame(dsu, x, y).ret = together
                  /\ (fx.ret = fy.ret) = together
                  /\ fx.ret \in ClassOf(dsuRef, x)
        /\ last.op = "is_same" =>
              last.ret = (ClassOf(dsuRef, last.l) = ClassOf(dsuRef, last.r))
        /\ last.op = "find" => last.ret \in ClassOf(dsuRef, last.l)

\* is_same has answered true for two elements of a class of three whose
\* parent chain has two links, and false is the answer for the fourth.
C13_Witness ==
    /\ HasDsu /\ DsuLen(dsu) = 4
    /\ last.op = "is_same" /\ last.ret = TRUE /\ last.l # last.r
    /\ Cardinality(ClassOf(dsuRef, last.l)) = 3
    /\ \E z \in DsuIndices : DsuIsSame(dsu, last.l, z).ret = FALSE

\* C14: union(x, y) returns true iff x and y were in different sets before
\* the call, and then exactly those two sets are merged and num_sets goes down
\* by exactly 1; it returns false iff they were in one set, and then the
\* partition and num_sets are unchanged; in every state num_sets is the
\* number of classes of the partition, n right after new(n).
C14_UnionMergesAndCounts ==
    [][HasDsu =>
          /\ DsuClasses(dsu) = dsuRef
          /\ DsuClasses(dsu') = dsuRef'
          /\ dsu.num_sets = Cardinality(dsuRef)
          /\ dsu'.num_sets = Cardinality(dsuRef')
          /\ last.op = "new" => dsu.num_sets = DsuLen(dsu)
          /\ last'.op = "union" =>
                LET cx == ClassOf(dsuRef, last'.l)
                    cy == ClassOf(dsuRef, last'.r)
                IN  /\ last'.ret = (cx # cy)
                    /\ cx # cy =>
                          /\ DsuClasses(dsu') = (dsuRef \ {cx, cy}) \cup {cx \cup cy}
                          /\ dsu'.num_sets = dsu.num_sets - 1
                    /\ cx = cy =>
                          /\ DsuClasses(dsu') = dsuRef
                          /\ dsu'.num_sets = dsu.num_sets
      ]_vars

\* A union has merged two sets of two elements each into the one set of a DSU
\* of four elements.
C14_Witness ==
    /\ HasDsu /\ DsuLen(dsu) = 4
    /\ last.op = "union" /\ last.ret = TRUE
    /\ dsu.num_sets = 1
    /\ \E r \in DsuIndices : \E c \in DsuIndices :
          /\ dsu.parent[r] = -4 /\ dsu.parent[c] = r
          /\ Cardinality({z \in DsuIndices : dsu.parent[z] = c}) = 1

\* The sum of the sizes the roots store.
RECURSIVE SumOfSizes(_, _)
SumOfSizes(parent, todo) ==
    IF todo = {} THEN 0
    ELSE LET x == CHOOSE z \in todo : TRUE
         IN  (IF parent[x] < 0 THEN -parent[x] ELSE 0)
                 + SumOfSizes(parent, todo \ {x})

\* The number of links from x up to a root, counted up to a limit.
RECURSIVE LinksToRoot(_, _, _)
LinksToRoot(parent, x, limit) ==
    IF limit = 0 \/ parent[x] < 0 THEN 0
    ELSE 1 + LinksToRoot(parent, parent[x], limit - 1)

\* C15: set_size(x) returns the number of elements of the set of x; each root
\* r stores parent[r] = -(size of the set of r), every other element stores
\* the index of a parent from which the links lead to its root without a
\* cycle, and the sizes the roots store sum to n.
C15_SizesStoredAtRoots ==
    HasDsu =>
        /\ \A x \in DsuIndices :
              /\ DsuSetSize(dsu, x).ret = Cardinality(ClassOf(dsuRef, x))
              /\ dsu.parent[x] < 0 =>
                    dsu.parent[x] = -Cardinality(ClassOf(dsuRef, x))
              /\ dsu.parent[x] >= 0 =>
                    /\ dsu.parent[x] \in DsuIndices
                    /\ LinksToRoot(dsu.parent, x, DsuLen(dsu))
                          < DsuLen(dsu)
                    /\ DsuRoot(dsu.parent, x) \in ClassOf(dsuRef, x)
        /\ SumOfSizes(dsu.parent, DsuIndices) = DsuLen(dsu)
        /\ last.op = "set_size" =>
              last.ret = Cardinality(ClassOf(dsuRef, last.l))

\* set_size has returned 4 in a set one element of which is two links below
\* the root, and returns 4 for that element.
C15_Witness ==
    /\ HasDsu /\ last.op = "set_size" /\ last.ret = 4
    /\ \E x \in DsuIndices :
          /\ dsu.parent[x] >= 0 /\ dsu.parent[dsu.parent[x]] >= 0
          /\ DsuSetSize(dsu, x).ret = 4

HasPdsu == pdsu # NoPdsu

\* C16: after union(from, to, p) has returned true, potential(from, to) is
\* Some(p), that is the potential from the root to `to` is that from the root
\* to `from`, then p; later unions, which may put the set under another root,
\* leave every difference asked for as it is (the reference keeps them all),
\* in both branches of the union-by-size swap and for a group that is not
\* commutative; potential(x, y) is None iff x and y are in different sets.
C16_PotentialRecorded ==
    HasPdsu =>
        /\ \A x \in PdsuIndices : \A y \in PdsuIndices :
              PdsuPotential(pdsu, x, y).ret
                  = IF ClassOf(pdsuRef.classes, x) = ClassOf(pdsuRef.classes, y)
                    THEN Some(pdsuRef.diff[<<x, y>>])
                    ELSE None
        /\ (last.op = "union" /\ last.ret = TRUE) =>
              /\ PdsuPotential(pdsu, last.l, last.r).ret = Some(last.x)
              /\ PdsuFind(pdsu, last.l)[1] = PdsuFind(pdsu, last.r)[1]
              /\ PdsuFind(pdsu, last.r)[2]
                    = group_op(PdsuFind(pdsu, last.l)[2], last.x)

\* A union of two sets of two elements has taken the swap (the root of `to`
\* absorbed the root of `from`, both with a member below them), and the
\* difference it asked for does not commute with one asked for before.
C16_Witness ==
    /\ HasPdsu /\ PdsuLen(pdsu) = 4 /\ pdsu.num_sets = 1
    /\ last.op = "union" /\ last.ret = TRUE
    /\ PdsuFind(pdsu, last.l)[1] # last.l
    /\ PdsuFind(pdsu, last.r)[1] # last.r
    /\ \E x \in PdsuIndices : \E y \in PdsuIndices :
          /\ group_op(pdsuRef.diff[<<x, y>>], last.x)
                # group_op(last.x, pdsuRef.diff[<<x, y>>])
          /\ PdsuPotential(pdsu, x, y).ret = Some(pdsuRef.diff[<<x, y>>])

\* The partition the parent array of a PotentialDSU stands for.
PdsuClasses(d) ==
    {{y \in DOMAIN d.parent : PdsuFind(d, y)[1] = PdsuFind(d, x)[1]} :
        x \in DOMAIN d.parent}

\* C17: union(from, to, p) returns false iff from and to are in one set
\* already and p is not the difference from `from` to `to`; then, and also
\* when it returns true for two elements of one set, parent, potential and
\* num_sets are unchanged; num_sets goes down, by exactly 1, only when two
\* different sets are merged.
C17_InconsistentUnionRejected ==
    [][(HasPdsu /\ last'.op = "union") =>
          LET from == last'.l
              to == last'.r
              together == ClassOf(pdsuRef.classes, from)
                              = ClassOf(pdsuRef.classes, to)
          IN  /\ last'.ret = FALSE <=>
                    (together /\ pdsuRef.diff[<<from, to>>] # last'.x)
              /\ together => pdsu' = pdsu
              /\ ~together =>
                    /\ pdsu'.num_sets = pdsu.num_sets - 1
                    /\ PdsuClasses(pdsu')
                          = MergeClasses(PdsuClasses(pdsu), from, to)
              /\ pdsu.num_sets = Cardinality(pdsuRef.classes)
              /\ pdsu'.num_sets = Cardinality(pdsuRef'.classes)
      ]_vars

\* A union of two elements of one set of three has been rejected: it asked
\* for a difference other than the one on record, and one it does not commute
\* with.
C17_Witness ==
    /\ HasPdsu /\ last.op = "union" /\ last.ret = FALSE
    /\ last.l # last.r
    /\ Cardinality(ClassOf(pdsuRef.classes, last.l)) = 3
    /\ pdsuRef.diff[<<last.l, last.r>>] # last.x
    /\ group_op(pdsuRef.diff[<<last.l, last.r>>], last.x)
          # group_op(last.x, pdsuRef.diff[<<last.l, last.r>>])

\* The vertices a walk along the edges of e leads to from the set `from`.
RECURSIVE ReachableFrom(_, _)
ReachableFrom(from, e) ==
    LET more == from \cup {e[k][2] : k \in {j \in 1..Len(e) : e[j][1] \in from}}
    IN  IF more = from THEN from ELSE ReachableFrom(more, e)

StronglyConnected(u, v, e) ==
    v \in ReachableFrom({u}, e) /\ u \in ReachableFrom({v}, e)

\* The index of the component of the vector that holds the vertex.
ComponentOf(components, v) ==
    CHOOSE i \in 1..Len(components) :
        \E k \in 1..Len(components[i]) : components[i][k] = v

RECURSIVE TotalLength(_)
TotalLength(components) ==
    IF components = << >> THEN 0
    ELSE Len(Head(components)) + TotalLength(Tail(components))

\* C18: kosaraju(n, e) returns the vertices 0..n-1 split into the strongly
\* connected components of the graph (every vertex in exactly one component,
\* no component empty, two vertices in one component iff each is reachable
\* from the other), the components in topological order of the condensation:
\* an edge (u, v) between two components goes from the earlier to the later.
C18_KosarajuComponents ==
    scc.called =>
        LET V == 0..(scc.n - 1)
            ret == scc.ret
        IN  /\ TotalLength(ret) = scc.n
            /\ \A i \in 1..Len(ret) : ret[i] # << >>
            /\ \A v \in V :
                  \E i \in 1..Len(ret) : \E k \in 1..Len(ret[i]) : ret[i][k] = v
            /\ \A u \in V : \A v \in V :
                  (ComponentOf(ret, u) = ComponentOf(ret, v))
                      <=> StronglyConnected(u, v, scc.e)
            /\ \A k \in 1..Len(scc.e) :
                  ComponentOf(ret, scc.e[k][1]) <= ComponentOf(ret, scc.e[k][2])

\* kosaraju has returned a component of two vertices, a cycle, that the
\* third vertex has an edge into: the third vertex alone comes first.
C18_Witness ==
    /\ scc.called /\ scc.n = 3 /\ Len(scc.e) = 3
    /\ Len(scc.ret) = 2
    /\ Len(scc.ret[1]) = 1 /\ Len(scc.ret[2]) = 2
    /\ scc.ret[1][1] = 2
    /\ \E k \in 1..3 : scc.e[k][1] = 2 /\ scc.e[k][2] # 2

HasNtt == ntt # NoNtt

\* The number of times compute_ntt_roots has run for the modulus.
TimesComputed(modulo) ==
    Cardinality({k \in 1..Len(ntt.computed) : ntt.computed[k] = modulo})

\* C19: under every interleaving of get_ntt_roots calls, compute_ntt_roots
\* runs at most once for each modulus (no two threads are between lock and
\* return at once, so no two of them both miss), and all calls for one
\* modulus return the same (roots, inv_roots).
C19_RootsComputedOnce ==
    HasNtt =>
        /\ \A modulo \in Moduli : TimesComputed(modulo) <= 1
        /\ Cardinality(ntt.locked) <= 1
        /\ \A a \in ntt.returned : \A b \in ntt.returned :
              a[1] = b[1] => a[2] = b[2]
        /\ \A a \in ntt.returned : a[2] = compute_ntt_roots(a[1])

\* Two threads have called for the same modulus; the table was computed once,
\* and one thread waits for the lock while the other holds it.
C19_Witness ==
    /\ HasNtt /\ ntt.threads = {1, 2}
    /\ ntt.modulo[1] = 17 /\ ntt.modulo[2] = 17
    /\ ntt.pc[1] = "lock" /\ ntt.pc[2] = "insert"
    /\ TimesComputed(17) = 1
    /\ ntt.calls = 2

\* The leaves hold the sequence, the padding holds the identity, every
\* internal slot holds the product of its two children.
CentralInvariant(t, a) ==
    /\ \A j \in 0..(t.n - 1) : t.data[t.m + j] = a[j + 1]
    /\ \A k \in (t.m + t.n)..(2 * t.m - 1) : t.data[k] = identity(t.alg)
    /\ \A k \in 1..(t.m - 1) :
          t.data[k] = op(t.alg, t.data[2 * k], t.data[2 * k + 1])

\* The slot and the slots above it, up to the root.
RECURSIVE SlotAndAncestors(_)
SlotAndAncestors(k) ==
    IF k < 1 THEN {} ELSE {k} \cup SlotAndAncestors(k \div 2)

\* C20: after new(n) or from_vec(a) and after every set(i, x) with i < n,
\* data[m + j] is the j-th element of the sequence for j < n, data[k] is the
\* identity for m + n <= k < 2m and data[k] = op(data[2k], data[2k+1]) for
\* 1 <= k < m; set writes x to the leaf m + i and rewrites no slot other
\* than that leaf and its ancestors.
C20_CentralInvariant ==
    [][HasSeg =>
          /\ CentralInvariant(seg, segRef)
          /\ CentralInvariant(seg', segRef')
          /\ last'.op = "set" =>
                /\ seg'.data[seg.m + last'.l] = last'.x
                /\ segRef' = [segRef EXCEPT ![last'.l + 1] = last'.x]
                /\ \A k \in DOMAIN seg.data \ SlotAndAncestors(seg.m + last'.l) :
                      seg'.data[k] = seg.data[k]
      ]_vars

\* set(2, x) on a SegTree of three elements has changed the leaf 6 and, above
\* it, the slots 3 and 1, and left the slot 2 as it was.
C20_Witness ==
    /\ HasSeg /\ seg.alg = "Concat" /\ seg.n = 3 /\ seg.m = 4
    /\ last.op = "set" /\ last.l = 2 /\ last.x = <<"b">>
    /\ seg.data[6] = <<"b">> /\ seg.data[3] = <<"b">>
    /\ seg.data[2] = <<"a", "a">>
    /\ seg.data[1] = <<"a", "a", "b">>

(***************************************************************************)
(* The pending-operator buffer of the lazy structure.                      *)
(***************************************************************************)
PendingInvariant(t) ==
    \A k \in Internal(t.m) :
       t.data[k] = apply(t.alg, op_s(t.alg, t.data[2 * k], t.data[2 * k + 1]),
                         t.func[k])

\* C21: after construction and after every range_apply or range_fold returns,
\* every internal slot k (1 <= k < m) of the lazy structure satisfies
\* data[k] = apply(op_s(data[2k], data[2k+1]), func[k]): the aggregate of a
\* slot reflects its own pending operator, which its children do not reflect
\* yet, and a clean internal slot is op_s of its children.
C21_PendingInvariant == HasLazy => PendingInvariant(lazy)

\* A call has returned with a dirty slot whose aggregate differs from op_s of
\* its children, above a clean slot.
C21_Witness ==
    /\ HasLazy /\ last.op = "range_op"
    /\ \E k \in Pending(lazy) :
          lazy.data[k] # op_s(lazy.alg, lazy.data[2 * k], lazy.data[2 * k + 1])
    /\ \E k \in Internal(lazy.m) \ Pending(lazy) :
          lazy.data[k] # identity_s(lazy.alg)

(***************************************************************************)
(* The calls of the lazy structure, statement by statement.                *)
(***************************************************************************)
\* x >> 1, x >> 2, ..., 1.
ProperAncestors(x) == {Shr(x, j) : j \in 1..(trailing_zeros(lazy.m) + 1)} \ {0}

Clean(X) == \A a \in X : lazy.func[a] = identity_f(lazy.alg)

\* The statement about to run accesses a boundary node in the walk (reads it
\* in range_fold, applies f to it in range_apply), or recomputes a slot in
\* the pull loop.
WalkDueL == InLazy /\ run.pc = "walk_l" /\ run.l < run.r /\ run.l % 2 = 1
WalkDueR == InLazy /\ run.pc = "walk_r" /\ run.r % 2 = 1
PullDueL ==
    /\ run.pc = "pull_l" /\ run.k <= trailing_zeros(lazy.m)
    /\ Shl(Shr(run.l0, run.k), run.k) # run.l0
PullDueR ==
    /\ run.pc = "pull_r"
    /\ Shl(Shr(run.r0, run.k), run.k) # run.r0

\* C22: in range_fold and range_apply of the lazy structure, at the moment the
\* boundary walk reads data[x] or applies f to data[x] and func[x], every
\* proper ancestor of x has the pending operator identity_f; at the moment
\* the pull loop recomputes data[x], x and all its ancestors have the pending
\* operator identity_f.
C22_TopDownPush ==
    /\ WalkDueL => Clean(ProperAncestors(run.l))
    /\ WalkDueR => Clean(ProperAncestors(run.r - 1))
    /\ PullDueL => Clean({Shr(run.l0, run.k)}
                          \cup ProperAncestors(Shr(run.l0, run.k)))
    /\ PullDueR => Clean({Shr(run.r0 - 1, run.k)}
                          \cup ProperAncestors(Shr(run.r0 - 1, run.k)))

\* range_apply is about to apply f to a node two levels below a slot that
\* was dirty when the call began.
C22_Witness ==
    /\ WalkDueR /\ run.op = "range_apply"
    /\ Cardinality(ProperAncestors(run.r - 1)) >= 2
    /\ \E a \in ProperAncestors(run.r - 1) :
          run.t0.func[a] # identity_f(lazy.alg)

Leaves(m) == m..(2 * m - 1)

\* C23 as claimed: in every reachable state of a LazySegTree, func[k] is
\* identity_f for every leaf slot m <= k < 2m; a pending operator is
\* non-identity only at internal slots 1 <= k < m.
C23_LeavesIdentity ==
    HasLazy => \A k \in Leaves(lazy.m) : lazy.func[k] = identity_f(lazy.alg)

\* The tree with the pending entries of its leaves reset to identity_f.
LeavesReset(t) ==
    [t EXCEPT !.func = [k \in DOMAIN t.func |->
                           IF k \in Leaves(t.m) THEN identity_f(t.alg)
                           ELSE t.func[k]]]

\* C23 (amended): a leaf's pending entry may be non-identity (range_apply and
\* push compose into it), but it is pending state without meaning: in every
\* reachable state, with the leaves' entries reset to identity_f every
\* range_fold returns the same value and leaves the same aggregates and
\* internal pending entries, and every range_apply leaves the same
\* aggregates and internal pending entries.
C23_LeafPendingInert ==
    HasLazy =>
       \A range \in LazyValidRanges(lazy) :
          LET reset == LeavesReset(lazy)
              Same(a, b) ==
                  /\ a.ret = b.ret
                  /\ a.tree.data = b.tree.data
                  /\ LeavesReset(a.tree) = LeavesReset(b.tree)
          IN  /\ Same(LazyRangeFold(lazy, range, debug),
                      LazyRangeFold(reset, range, debug))
              /\ \A f \in Operators(lazy.alg) :
                    Same(LazyRangeApply(lazy, range, f, debug),
                         LazyRangeApply(reset, range, f, debug))

\* A tree of two leaves or more with a dirty leaf below a dirty slot.
C23_Witness ==
    /\ HasLazy /\ last.op = "range_op"
    /\ \E k \in Pending(lazy) :
          /\ 2 * k \in Leaves(lazy.m)
          /\ lazy.func[2 * k] # identity_f(lazy.alg)

\* The statement about to run is a call of push, and the slot it is given.
PushDueL ==
    /\ InLazy /\ run.pc = "push_l" /\ run.k >= 1
    /\ Shl(Shr(run.l0, run.k), run.k) # run.l0
PushDueR ==
    /\ InLazy /\ run.pc = "push_r"
    /\ Shl(Shr(run.r0, run.k), run.k) # run.r0
PushDue == PushDueL \/ PushDueR
PushSlot == IF PushDueL THEN Shr(run.l0, run.k) ELSE Shr(run.r0 - 1, run.k)

\* The sequence a tree represents: each leaf with the pending operators of
\* the slots above it applied, the nearest first.
RECURSIVE UnderPending(_, _, _)
UnderPending(t, x, k) ==
    IF k < 1 THEN x
    ELSE UnderPending(t, apply(t.alg, x, t.func[k]), k \div 2)

Represented(t) ==
    [i \in 1..t.n |-> UnderPending(t, t.data[t.m + i - 1],
                                   (t.m + i - 1) \div 2)]

PushEffect(a, b, k) ==
    LET f == a.func[k]
    IN  /\ b.func[k] = identity_f(a.alg)
        /\ b.data[2 * k] = apply(a.alg, a.data[2 * k], f)
        /\ b.data[2 * k + 1] = apply(a.alg, a.data[2 * k + 1], f)
        /\ b.func[2 * k] = op_f(a.alg, a.func[2 * k], f)
        /\ b.func[2 * k + 1] = op_f(a.alg, a.func[2 * k + 1], f)
        /\ b.data[k] = a.data[k]
        /\ \A j \in DOMAIN a.data \ {k, 2 * k, 2 * k + 1} :
              b.data[j] = a.data[j] /\ b.func[j] = a.func[j]
        /\ DOMAIN b.data = DOMAIN a.data /\ DOMAIN b.func = DOMAIN a.func
        /\ Represented(b) = Represented(a)

\* C24: push(k) moves a dirty slot to clean: with f = func[k] before the
\* call, afterwards func[k] = identity_f, data[2k] and data[2k+1] are their
\* old values with f applied, func[2k] = op_f(old func[2k], f) and
\* func[2k+1] = op_f(old func[2k+1], f); data[k] and every slot other than
\* k, 2k, 2k+1 of both buffers are unchanged, and so is the sequence the
\* tree represents.
C24_PushEffect == [][PushDue => PushEffect(lazy, lazy', PushSlot)]_vars

\* The first statement of a call has pushed the root, which was dirty above
\* a dirty child whose operator does not commute with the root's.
C24_Witness ==
    /\ InLazy /\ run.log = <<<<"push", 1>>>>
    /\ LET f == run.t0.func[1]
           g == run.t0.func[2]
       IN  /\ f # identity_f(lazy.alg) /\ g # identity_f(lazy.alg)
           /\ op_f(lazy.alg, g, f) # op_f(lazy.alg, f, g)
           /\ lazy.func[2] = op_f(lazy.alg, g, f)

\* C25: push on a clean slot is a no-op: push(k) with func[k] = identity_f
\* leaves every entry of the aggregate buffer and of the pending buffer as it
\* was; hence push is idempotent: after a push(k), a second push(k) changes
\* nothing.
C25_PushCleanNoOp ==
    [][PushDue =>
          /\ lazy.func[PushSlot] = identity_f(lazy.alg) => lazy' = lazy
          /\ push(lazy.alg, Bufs(lazy'), PushSlot) = Bufs(lazy')]_vars

\* The first statement of a call has pushed the clean root of a tree whose
\* left child is dirty.
C25_Witness ==
    /\ InLazy /\ run.log = <<<<"push", 1>>>>
    /\ run.t0.func[1] = identity_f(lazy.alg)
    /\ run.t0.func[2] # identity_f(lazy.alg)
    /\ run.t0.data[2] # identity_s(lazy.alg)
    /\ lazy = run.t0

\* The positions of the log that hold an access of the given kind, and the
\* slots accessed so.
At(kind) == {p \in 1..Len(run.log) : run.log[p][1] = kind}
Slots(kind) == {run.log[p][2] : p \in At(kind)}

\* The level of a slot: 0 for a leaf, log2(m) for the root.
RECURSIVE Level(_, _)
Level(m, x) == IF x >= m THEN 0 ELSE 1 + Level(m, 2 * x)

\* Leaf l, leaf r - 1 and the slots above them, and the children of those.
Paths(l, r) == SlotAndAncestors(l) \cup SlotAndAncestors(r - 1)
PathsAndChildren(l, r) ==
    Paths(l, r) \cup {2 * x : x \in Paths(l, r)}
                \cup {2 * x + 1 : x \in Paths(l, r)}

\* C26 (l and r are taken in slot space, m added, as the code holds them):
\* in range_apply([l, r), f) every push happens before the first direct
\* apply to a boundary node and every pull after the last one; the pushes
\* visit the levels from the root down to the level above the leaves, the
\* pulls from the level above the leaves up to the root; the pull recomputes
\* exactly the slots l >> k and (r - 1) >> k of the levels k in 1..log2(m) at
\* which l (respectively r) is not a multiple of 2^k; and every slot that is
\* neither on the path from the root to leaf l or to leaf r - 1 (these leaves
\* and their ancestors) nor a child of a slot on it is left unchanged in both
\* buffers.
C26_PhasesAndPullSet ==
    (run.op = "range_apply" /\ run.pc = "return") =>
       LET m == lazy.m
           top == trailing_zeros(m)
           l == run.l0
           r == run.r0
           Direct == At("apply")
       IN  /\ At("push") \cup Direct \cup At("pull") = 1..Len(run.log)
           /\ \A p \in At("push"), q \in Direct \cup At("pull") : p < q
           /\ \A p \in Direct, q \in At("pull") : p < q
           /\ \A p, q \in At("push") :
                 p < q => Level(m, run.log[p][2]) >= Level(m, run.log[q][2])
           /\ \A p, q \in At("pull") :
                 p < q => Level(m, run.log[p][2]) <= Level(m, run.log[q][2])
           /\ \A x \in Slots("push") \cup Slots("pull") :
                 Level(m, x) \in 1..top
           /\ Slots("pull") =
                 {l \div Pow2(k) : k \in {j \in 1..top : l % Pow2(j) # 0}}
                 \cup {(r - 1) \div Pow2(k) :
                          k \in {j \in 1..top : r % Pow2(j) # 0}}
           /\ \A x \in Internal(m) \ Slots("pull") :
                 \/ lazy.data[x] = run.t0.data[x]
                 \/ x \in Slots("apply")
                 \/ x \div 2 \in Slots("push")
           /\ \A x \in DOMAIN lazy.data \ PathsAndChildren(l, r) :
                 /\ lazy.data[x] = run.t0.data[x]
                 /\ lazy.func[x] = run.t0.func[x]

\* A range_apply is about to return after pushes on two levels, a direct
\* apply and pulls on two levels, having changed an internal aggregate that it
\* did not pull.
C26_Witness ==
    /\ run.op = "range_apply" /\ run.pc = "return"
    /\ \E x, y \in Slots("push") : Level(lazy.m, x) # Level(lazy.m, y)
    /\ \E x, y \in Slots("pull") : Level(lazy.m, x) # Level(lazy.m, y)
    /\ Slots("apply") # {}
    /\ \E x \in Internal(lazy.m) \ Slots("pull") :
          lazy.data[x] # run.t0.data[x]

(***************************************************************************)
(* Termination and the cost of a call.                                     *)
(***************************************************************************)
\* log2(m) of the tree the running call works on.
Log2M == IF run.op \in {"set", "seg_range_fold"}
         THEN trailing_zeros(seg.m) ELSE trailing_zeros(lazy.m)

StepBounds ==
    /\ run.op = "set" =>
          /\ run.iters <= Log2M
          /\ run.pc = "return" => run.l = 0 /\ run.iters = Log2M
    /\ run.op \in {"seg_range_fold", "range_fold", "range_apply"} =>
          /\ run.iters <= Log2M + 1
          /\ run.pc \in {"return", "pull_l", "pull_r"} => ~(run.l < run.r)
    /\ InLazy =>
          /\ Cardinality(At("push")) <= 2 * Log2M
          /\ Cardinality(At("pull")) <= 2 * Log2M

\* C27: every operation terminates: for every valid input SegTree::set,
\* SegTree::range_fold, LazySegTree::range_fold and LazySegTree::range_apply
\* run to completion; the upward walk of set reaches i = 0 after log2(m)
\* steps, the loop `while l < r` ends after at most log2(m) + 1 iterations,
\* and an operation performs at most 2 log2(m) pushes and 2 log2(m) pulls.
C27_Terminates ==
    /\ [](run.pc # "idle" => <>(run.pc = "idle"))
    /\ []StepBounds

\* A range_apply on a tree of height two is about to return after four
\* pushes, a walk that applied f to two leaves and four pulls.
C27_Witness ==
    /\ run.op = "range_apply" /\ run.pc = "return"
    /\ Log2M = 2 /\ run.iters >= 1 /\ Cardinality(At("apply")) = 2
    /\ Cardinality(At("push")) = 4 /\ Cardinality(At("pull")) = 4

(***************************************************************************)
(* The slots a call touches.                                               *)
(***************************************************************************)
\* The indices of the buffers an access uses: push(k) uses func[k] and both
\* buffers at 2k and 2k + 1, a pull of x uses data[x], data[2x] and
\* data[2x + 1], any other access the slot itself.
Touched(access) ==
    IF access[1] \in {"push", "pull"}
    THEN {access[2], 2 * access[2], 2 * access[2] + 1}
    ELSE {access[2]}

\* C28: for all valid inputs (i < n; l <= r <= n) every index read or written
\* by set, get, all_fold, range_fold, range_apply and push lies in 1..2m - 1:
\* slot 0 is never read or written after construction, push is only invoked
\* on internal slots 1 <= k < m, and no access is out of bounds in the edge
\* cases n = 0, n = 1, l = r and r = n = m.
C28_AccessesInBounds ==
    LET m == IF HasSeg THEN seg.m ELSE lazy.m
    IN  \A p \in 1..Len(run.log) :
           /\ Touched(run.log[p]) \subseteq 1..(2 * m - 1)
           /\ run.log[p][1] \in {"push", "pull"} =>
                 run.log[p][2] \in Internal(m)

\* A range_apply up to r = n = m is about to return, having pushed the root
\* and applied f to the last slot of the buffers.
C28_Witness ==
    /\ run.op = "range_apply" /\ run.pc = "return"
    /\ lazy.n = lazy.m /\ run.r0 = 2 * lazy.m
    /\ 1 \in Slots("push")
    /\ 2 * lazy.m - 1 \in Slots("apply")

(***************************************************************************)
(* range_fold of the lazy structure as an observation.                     *)
(***************************************************************************)
\* C29: LazySegTree::range_fold is observationally pure although it takes the
\* tree mutably and pushes pending operators: in every reachable state and for
\* all valid ranges R1 and R2, range_fold(R2) returns the same value whether
\* or not range_fold(R1) was called immediately before it, and range_fold(R1)
\* called twice in a row returns the same value both times.
C29_RangeFoldPure ==
    HasLazy =>
       \A R1, R2 \in LazyValidRanges(lazy) :
          LET first == LazyRangeFold(lazy, R1, debug)
          IN  /\ LazyRangeFold(first.tree, R2, debug).ret
                    = LazyRangeFold(lazy, R2, debug).ret
              /\ LazyRangeFold(first.tree, R1, debug).ret = first.ret

\* A state in which a range_fold changes the buffers and a second range_fold
\* changes them again, each returning a value that is not the identity.
C29_Witness ==
    /\ HasLazy /\ last.op = "range_op"
    /\ \E R1, R2 \in LazyValidRanges(lazy) :
          LET first == LazyRangeFold(lazy, R1, debug)
              second == LazyRangeFold(first.tree, R2, debug)
          IN  /\ first.tree # lazy /\ second.tree # first.tree
              /\ first.ret # identity_s(lazy.alg)
              /\ second.ret # identity_s(lazy.alg)
              /\ second.ret # first.ret

(***************************************************************************)
(* The padding of the lazy structure.                                      *)
(***************************************************************************)
\* The padding leaves, and the slots whose subtree contains one.
PaddingLeaves(t) == (t.m + t.n)..(2 * t.m - 1)
AbovePadding(t) == {k \in 1..(2 * t.m - 1) : LeafHi(t.m, k) >= t.m + t.n}

\* C30: padding stays inert in the lazy structure: under valid ranges
\* (r <= n), in every reachable state no slot whose subtree contains a padding
\* leaf (index >= m + n) has a non-identity pending operator, and every
\* padding leaf keeps the aggregate identity_s and the pending operator
\* identity_f; so no range_apply alters what padding contributes to an
\* aggregate.
C30_PaddingInert ==
    HasLazy =>
       /\ \A k \in AbovePadding(lazy) : lazy.func[k] = identity_f(lazy.alg)
       /\ \A k \in PaddingLeaves(lazy) :
             /\ lazy.data[k] = identity_s(lazy.alg)
             /\ lazy.func[k] = identity_f(lazy.alg)

\* A tree with padding below its root after calls that left the last element,
\* the sibling of a padding leaf, and an internal slot dirty.
C30_Witness ==
    /\ HasLazy /\ last.op = "range_op"
    /\ lazy.m >= 4 /\ PaddingLeaves(lazy) # {}
    /\ lazy.func[lazy.m + lazy.n - 1] # identity_f(lazy.alg)
    /\ Pending(lazy) # {}
=============================================================================
